---- MODULE Spec2Model ----
(***************************************************************************)
(* Model of the MercadoLibre integration of autobiliaria-backend:          *)
(* the OAuth credential table (MLCredential), the mirror table             *)
(* (MLPublication), the marketplace columns of Vehiculo, the audit table   *)
(* (MLSyncLog) and the MLClient / MLSyncService code that changes them.    *)
(*                                                                         *)
(* Spec       : one staff account; every HTTP handler and the cron command *)
(*              as one atomic step (requests served one after the other).  *)
(* SpecCred   : several staff accounts, the account handlers and the clock.*)
(* SpecClient : MLClient executed statement by statement by two            *)
(*              overlapping requests, against a marketplace that rotates   *)
(*              single-use refresh tokens.                                 *)
(*                                                                         *)
(* Time is counted in minutes.  0 stands for NULL / '' in integer columns. *)
(***************************************************************************)
EXTENDS Integers, Sequences, FiniteSets, TLC

\* ------------------------------------------------------------------ bounds
NumUsers == 2
NumVehicles == 1
NumItems == 1
NumListed == 2
MaxToken == 2
MaxTime == 30
MaxTotal == 120
MaxState == 2
NumStock == 2
NumReservas == 2
NumSlots == 3
NumYears == 2
NumImages == 3
MaxExpiry == 35
NumPagos == 2
MaxCreated == 4
MaxFrags == 7
MaxAttrs == 2
MaxMonto == 2
MaxClock == 40
MaxOrden == 1

\* the number of zero-padded digits of f'{new_num:05d}'
PadWidth == 5

\* the most images a vehicle may have
MaxImagenes == 15

\* the year of the example in the docstring of _generar_numero_reserva
FirstYear == 2024

Users == 1..NumUsers
Vehicles == 1..NumVehicles
Items == 1..NumItems
\* item ids of the account in SpecSync
ListedItems == 1..NumListed
Tokens == 1..MaxToken

\* the overlapping requests of SpecClient, named by the service method they
\* run: get_quota, and sync_publications on an account that lists no item
Clients == {"quota", "import"}

\* minutes that pass between two observations of the clock
Elapse == {30}
\* expires_in values (minutes) the marketplace answers with
ExpiresIn == {30, 60}

VARIABLES
    credential,     \* MLCredential rows, one per user (OneToOne)
    vehiculos,      \* Vehiculo rows (marketplace columns, deleted_at)
    publications,   \* MLPublication rows, keyed by the unique ml_item_id
    now,            \* timezone.now()
    last,           \* what the latest handler answered and the MLSyncLog rows its view/service wrote
    pc,             \* SpecClient: position of each overlapping request in MLClient
    mem,            \* SpecClient: the credential object each request holds in memory
    trace,          \* SpecClient: what each request has sent so far
    mlRefresh,      \* SpecClient: refresh token the marketplace currently accepts
    session,        \* request.session of the staff browser (ml_oauth_state, ml_oauth_user_id)
    reservas,       \* Reserva rows
    fichas,         \* Vehiculo rows (vendido, reservado, mostrar_en_web, updated_at)
    imagenes,       \* ImagenVehiculo rows
    year            \* timezone.now().year

dbVars == <<credential, vehiculos, publications>>
clientVars == <<pc, mem, trace, mlRefresh>>
appVars == <<session, reservas, fichas, imagenes, year>>
vars == <<credential, vehiculos, publications, now, last, pc, mem, trace, mlRefresh,
          session, reservas, fichas, imagenes, year>>

\* ------------------------------------------------------- MLCredential rows
NoCred == [exists |-> FALSE]

Cred(at, rt, exp, act) ==
    [exists |-> TRUE, access_token |-> at, refresh_token |-> rt,
     expires_at |-> exp, is_active |-> act]

\* variant: the 30 minutes are counted after the expiry
needs_refresh_late(c, t) == t >= c.expires_at + 30

is_token_expired(c, t) == t >= c.expires_at

needs_refresh(c, t) == t >= c.expires_at - 30

\* MLCredential.objects.filter(is_active=True)
ActiveUsers == {u \in DOMAIN credential : credential[u].exists /\ credential[u].is_active}

\* ------------------------------------------------------------- MLSyncLog
LogEntry(a, ok) == [action |-> a, success |-> ok]

\* ------------------------------------------------ answers of the marketplace
NetworkError == [kind |-> "network"]

\* answers to POST /oauth/token; a successful exchange issues tokens from G
TokenOk(G) == {[kind |-> "http", status |-> 200, error |-> "", token |-> g, expires_in |-> e] :
                 g \in G, e \in ExpiresIn}

TokenFail == {[kind |-> "http", status |-> s, error |-> e, token |-> 0, expires_in |-> 0] :
                s \in {400, 401, 500},
                e \in {"invalid_grant", "invalid_token", ""}}

\* the refresh token is single use: a successful exchange rotates it
Rotated(c) == {(c.refresh_token % MaxToken) + 1}

RefreshResponses(c) == TokenOk(Rotated(c)) \cup TokenFail \cup {NetworkError}

\* answers to the authorization-code exchange of the OAuth callback
CodeResponses ==
    TokenOk(Tokens) \cup {r \in TokenFail : r.error = "invalid_grant"} \cup {NetworkError}

\* answers to an API request
ApiResponses == {[kind |-> "http", status |-> s] : s \in {200, 400, 401, 500}} \cup {NetworkError}

\* ------------------------------------------------------ MLClient._refresh_token
\* variant: deactivate only on HTTP 400 that carries one of the two error codes
InvalidatesOnlyCoded400(resp) ==
    resp.error \in {"invalid_grant", "invalid_token"} /\ resp.status = 400

\* the branch of _refresh_token that deactivates the credential
Invalidates(resp) ==
    resp.error \in {"invalid_grant", "invalid_token"} \/ resp.status = 400

\* result of _refresh_token on credential c when the exchange is answered by resp at time t
_refresh_token(c, resp, t) ==
    IF resp.kind = "network"
    THEN [cred |-> c, ok |-> FALSE, log |-> <<LogEntry("refresh_token", FALSE)>>]
    ELSE IF resp.status = 200
    THEN [cred |-> Cred(resp.token, resp.token, t + resp.expires_in, c.is_active),
          ok |-> TRUE, log |-> <<LogEntry("refresh_token", TRUE)>>]
    ELSE [cred |-> IF Invalidates(resp) THEN [c EXCEPT !.is_active = FALSE] ELSE c,
          ok |-> FALSE, log |-> <<LogEntry("refresh_token", FALSE)>>]

\* credentials one _refresh_token call can leave, with its return value
RefreshOutcomes(c, t) ==
    {[cred |-> o.cred, ok |-> o.ok] : o \in {_refresh_token(c, r, t) : r \in RefreshResponses(c)}}

\* MLClient._ensure_valid_token (also run by MLClient.__init__): the credentials it can leave
_ensure_valid_token(c, t) ==
    IF needs_refresh(c, t)
    THEN {o.cred : o \in RefreshOutcomes(c, t)}
    ELSE {c}

\* ------------------------------------------------------------ MLClient._request
\* every way one _request call can go once _ensure_valid_token left credential e
\* and the endpoint answered r1: the credential it leaves, the number of HTTP
\* requests sent to the endpoint and whether MLAPIError is raised
AfterFirst(e, r1, t) ==
    IF r1.kind = "network"
    THEN {[cred |-> e, sent |-> 1, raised |-> TRUE]}
    ELSE IF r1.status = 401
    THEN UNION {
           IF o.ok
           THEN {[cred |-> o.cred, sent |-> 2,
                  raised |-> (r2.kind = "network" \/ r2.status >= 400)] : r2 \in ApiResponses}
           ELSE {[cred |-> o.cred, sent |-> 1, raised |-> TRUE]}
           : o \in RefreshOutcomes(e, t)}
    ELSE {[cred |-> e, sent |-> 1, raised |-> r1.status >= 400]}

_request(c, t) ==
    IF ~c.is_active
    THEN {[cred |-> c, sent |-> 0, raised |-> TRUE]}
    ELSE UNION {AfterFirst(e, r1, t) : e \in _ensure_valid_token(c, t), r1 \in ApiResponses}

\* n consecutive calls of MLClient methods (one _request each), stopping at the
\* first MLAPIError: the credential left, the calls made, whether it raised
RECURSIVE RequestChain(_, _, _)
RequestChain(c, t, n) ==
    IF n = 0
    THEN {[cred |-> c, calls |-> 0, raised |-> FALSE]}
    ELSE UNION {
           IF o.raised
           THEN {[cred |-> o.cred, calls |-> 1, raised |-> TRUE]}
           ELSE {[cred |-> p.cred, calls |-> 1 + p.calls, raised |-> p.raised] :
                   p \in RequestChain(o.cred, t, n - 1)}
           : o \in _request(c, t)}

\* MLSyncService(credential) followed by n API calls: MLClient.__init__ runs
\* _ensure_valid_token before the first _request
ServiceCalls(c, t, n) ==
    UNION {RequestChain(e, t, n) : e \in _ensure_valid_token(c, t)}

\* ------------------------------------------------------------------ handlers
\* A request that is answered 4xx before anything is written or sent (object
\* not found, no account connected, invalid body) changes nothing: the handler
\* is not enabled then.  `last` is the answer of the latest handler that ran:
\* the operation, the row it acted on, the outcome, the MLSyncLog rows written
\* by the view or by MLSyncService (the REFRESH_TOKEN rows of
\* MLClient._refresh_token are followed in SpecClient), and the number of
\* MLClient method calls the handler made.
Answer(op, on, result, log, calls) ==
    [op |-> op, on |-> on, result |-> result, log |-> log, calls |-> calls]

\* MLCredential.objects.get(is_active=True)
TheActive == CHOOSE u \in ActiveUsers : TRUE

\* Usuario.objects.filter(is_active=True).first(), Usuario is ordered by -created_at
FirstActiveUser == CHOOSE u \in DOMAIN credential : \A w \in DOMAIN credential : w <= u

\* variant: the callback stores the new credential and leaves the others alone
MLAuthCallbackKeepsOthers(su, resp) ==
    /\ resp.kind = "http" /\ resp.status = 200
    /\ su \in DOMAIN credential \cup {0}
    /\ LET user == IF su = 0 THEN FirstActiveUser ELSE su IN
       /\ credential' = [credential EXCEPT ![user] =
              Cred(resp.token, resp.token, now + resp.expires_in, TRUE)]
       /\ last' = Answer("callback", user, "connected", <<LogEntry("refresh_token", TRUE)>>, 0)
    /\ UNCHANGED <<vehiculos, publications, now, clientVars, appVars>>

\* GET /api/mercadolibre/auth/callback/ with a code the marketplace accepts
\* su is the user id kept in the session (0: none)
MLAuthCallback(su, resp) ==
    /\ resp.kind = "http" /\ resp.status = 200
    /\ su \in DOMAIN credential \cup {0}
    /\ LET user == IF su = 0 THEN FirstActiveUser ELSE su IN
       /\ credential' = [u \in DOMAIN credential |->
              IF u = user
              THEN Cred(resp.token, resp.token, now + resp.expires_in, TRUE)
              ELSE IF credential[u].exists
                   THEN [credential[u] EXCEPT !.is_active = FALSE]
                   ELSE credential[u]]
       /\ last' = Answer("callback", user, "connected", <<LogEntry("refresh_token", TRUE)>>, 0)
    /\ UNCHANGED <<vehiculos, publications, now, clientVars, appVars>>

\* POST /api/mercadolibre/auth/url/ by the logged-in user u; st is the value
\* drawn by secrets.token_urlsafe
MLAuthURL(u, st) ==
    /\ u \in DOMAIN credential
    /\ session' = [ml_oauth_state |-> st, ml_oauth_user_id |-> u]
    /\ last' = Answer("auth_url", u, "ok", <<>>, 0)
    /\ UNCHANGED <<dbVars, now, clientVars, reservas, fichas, imagenes, year>>

\* MLAuthCallbackView.get with ?code=...&state=state (0: no state parameter),
\* sent by a browser that carries the staff session cookie or by one that
\* does not; the comparison of state with the session's is commented out
MLAuthCallbackGet(state, withSession, resp) ==
    MLAuthCallback(IF withSession THEN session.ml_oauth_user_id ELSE 0, resp)

\* DELETE /api/mercadolibre/disconnect/
MLDisconnect ==
    /\ ActiveUsers # {}
    /\ credential' = [u \in DOMAIN credential |->
           IF credential[u].exists
           THEN [credential[u] EXCEPT !.is_active = FALSE]
           ELSE credential[u]]
    /\ last' = Answer("disconnect", 0, "ok", <<LogEntry("refresh_token", TRUE)>>, 0)
    /\ UNCHANGED <<vehiculos, publications, now, clientVars, appVars>>

\* GET /api/mercadolibre/status/
MLConnectionStatus ==
    /\ ActiveUsers # {}
    /\ LET c == credential[TheActive] IN
       /\ needs_refresh(c, now) /\ ~is_token_expired(c, now)
       /\ \E e \in _ensure_valid_token(c, now) :
            credential' = [credential EXCEPT ![TheActive] = e]
    /\ last' = Answer("status", TheActive, "connected", <<>>, 0)
    /\ UNCHANGED <<vehiculos, publications, now, clientVars, appVars>>

\* variant: the command refreshes whatever credential is stored and marks it
\* active when the exchange succeeds
RefreshAnyCredential(force) ==
    \E u \in DOMAIN credential :
      /\ credential[u].exists
      /\ needs_refresh(credential[u], now) \/ force
      /\ \E o \in RefreshOutcomes(credential[u], now) :
           credential' = [credential EXCEPT ![u] =
               IF o.ok THEN [o.cred EXCEPT !.is_active = TRUE] ELSE o.cred]
      /\ last' = Answer("cron", u, "done", <<>>, 0)
      /\ UNCHANGED <<vehiculos, publications, now, clientVars, appVars>>

\* manage.py refresh_ml_token [--force]
RefreshMlTokenCommand(force) ==
    /\ ActiveUsers # {}
    /\ LET c == credential[TheActive] IN
       /\ needs_refresh(c, now) \/ force
       \* MLClient(credential): the exchange runs only when needs_refresh holds;
       \* the log of the answer holds the exchanges that were made
       /\ \E o \in (IF needs_refresh(c, now)
                    THEN {_refresh_token(c, r, now) : r \in RefreshResponses(c)}
                    ELSE {[cred |-> c, ok |-> TRUE, log |-> <<>>]}) :
            /\ o.cred \in _ensure_valid_token(c, now)
            /\ credential' = [credential EXCEPT ![TheActive] = o.cred]
            /\ last' = Answer("cron", TheActive, "done", o.log, 0)
    /\ UNCHANGED <<vehiculos, publications, now, clientVars, appVars>>

\* GET /api/mercadolibre/quota/
MLQuota ==
    /\ ActiveUsers # {}
    /\ \E o \in ServiceCalls(credential[TheActive], now, 1) :
         /\ credential' = [credential EXCEPT ![TheActive] = o.cred]
         /\ last' = Answer("quota", TheActive, IF o.raised THEN "ml_error" ELSE "ok", <<>>, o.calls)
    /\ UNCHANGED <<vehiculos, publications, now, clientVars, appVars>>

\* ------------------------------------------- MLClient.get_all_user_items
\* the limit local of get_all_user_items, also the cap of get_user_items
PageLimit == 50

Min(a, b) == IF a <= b THEN a ELSE b

\* GET /users/{id}/items/search with offset and limit, for an account whose
\* listing has the ids 1..total: the ids at positions offset+1..offset+limit
get_user_items(offset, limit, total) ==
    LET size == Min(limit, PageLimit)
        n == IF offset >= total THEN 0 ELSE Min(size, total - offset) IN
    [results |-> [k \in 1..n |-> offset + k], paging |-> [total |-> total]]

\* variant: the loop goes on when the page ends exactly at the total
LastPageStrict(offset, limit, total) == offset + limit > total

\* the break test of the loop
LastPage(offset, limit, total) == offset + limit >= total

\* the local variables of a get_all_user_items call, kept in last.on, with the
\* offsets requested so far
PageRun(total, offset, all_items, offsets) ==
    [total |-> total, offset |-> offset, all_items |-> all_items, offsets |-> offsets]

\* one turn of the while loop of get_all_user_items
get_all_user_items ==
    /\ last.op = "pages" /\ last.result = "running"
    /\ LET r == last.on
           result == get_user_items(r.offset, PageLimit, r.total)
           items == r.all_items \o result.results
           sent == Append(r.offsets, r.offset) IN
       last' = IF LastPage(r.offset, PageLimit, result.paging.total)
               THEN Answer("pages", PageRun(r.total, r.offset, items, sent),
                           "ok", <<>>, last.calls + 1)
               ELSE Answer("pages", PageRun(r.total, r.offset + PageLimit, items, sent),
                           "running", <<>>, last.calls + 1)
    /\ UNCHANGED <<dbVars, now, clientVars, appVars>>

\* --------------------------------------------- Vehiculo and MLPublication rows
Statuses == {"active", "paused", "closed"}

\* status the marketplace gives a newly created item
CreateStatuses == {"active", "paused"}

Veh(pub, item, estado, perma, err, del) ==
    [publicado_en_ml |-> pub, ml_item_id |-> item, ml_estado |-> estado,
     ml_permalink |-> perma, ml_error |-> err, deleted |-> del]

NewVehiculo == Veh(FALSE, 0, "", 0, "", FALSE)

NoPub == [exists |-> FALSE]

Pub(v, st, plate) == [exists |-> TRUE, vehiculo |-> v, ml_status |-> st, patente_ml |-> plate]

\* Vehiculo.patente (unique) and the permalink of an item, as numbers
Patente(v) == v
Permalink(i) == i
Plates == {0} \cup Vehicles

\* variant: the queryset without the deleted_at filter
get_object_unfiltered(v, include_deleted) == v \in DOMAIN vehiculos

\* self.get_object() of VehiculoViewSet: get_queryset hides soft-deleted rows
\* unless ?include_deleted=true
get_object(v, include_deleted) ==
    v \in DOMAIN vehiculos /\ (include_deleted \/ ~vehiculos[v].deleted)

\* MLClient.get_all_user_items: one request per page of 50 ids
PageRequests(total) == IF total = 0 THEN 1 ELSE (total + 49) \div 50

\* MLClient.get_items_details_batch: one request per 20 ids
BatchRequests(n) == (n + 19) \div 20

\* variant: the lookup without the deleted_at filter
VehiculoByPatenteAnyRow(plate) ==
    LET m == {v \in DOMAIN vehiculos : Patente(v) = plate} IN
    IF m = {} THEN 0 ELSE CHOOSE v \in m : TRUE

\* Vehiculo.objects.filter(patente__iexact=..., deleted_at__isnull=True).first()
\* (a plate stands for its case-folded value)
VehiculoByPatente(plate) ==
    LET m == {v \in DOMAIN vehiculos : Patente(v) = plate /\ ~vehiculos[v].deleted} IN
    IF m = {} THEN 0 ELSE CHOOSE v \in m : TRUE

\* listings of n items the marketplace can return to a synchronisation
Listings(n) ==
    UNION {[S -> [status : Statuses, plate : Plates]] :
             S \in {T \in SUBSET (DOMAIN publications) : Cardinality(T) = n}}

\* _sync_single_item (update_or_create keyed by ml_item_id) and the linking
\* step of sync_publications, for item i with details d
SyncItem(i, d) ==
    LET row == IF publications[i].exists
               THEN [publications[i] EXCEPT !.ml_status = d.status, !.patente_ml = d.plate]
               ELSE Pub(0, d.status, d.plate)
    IN  IF row.vehiculo = 0 /\ row.patente_ml # 0 /\ VehiculoByPatente(row.patente_ml) # 0
        THEN [row EXCEPT !.vehiculo = VehiculoByPatente(row.patente_ml)]
        ELSE row

\* where the processing of one item can raise inside the try block of the
\* loop: in _sync_single_item (nothing is written), or in the linking step
\* that follows it (the row is written and counted, the link is not)
Stages == {"upsert", "link"}

\* the row of item i after its turn in the loop; stage "none": nothing raised
ProcessItem(i, d, stage) ==
    IF stage = "upsert" THEN publications[i]
    ELSE IF stage = "link"
    THEN IF publications[i].exists
         THEN [publications[i] EXCEPT !.ml_status = d.status, !.patente_ml = d.plate]
         ELSE Pub(0, d.status, d.plate)
    ELSE SyncItem(i, d)

\* POST /api/mercadolibre/sync/
\* the marketplace lists n items; details: their data; fails: where the
\* processing of each item raises, if it does
MLSync(n) ==
    /\ ActiveUsers # {}
    /\ \E o \in ServiceCalls(credential[TheActive], now, PageRequests(n) + BatchRequests(n)) :
         /\ credential' = [credential EXCEPT ![TheActive] = o.cred]
         /\ IF o.raised
            THEN /\ last' = Answer("sync", 0, "ml_error", <<LogEntry("import", FALSE)>>, o.calls)
                 /\ UNCHANGED publications
            ELSE \E details \in Listings(n) :
                 \E fails \in [DOMAIN details -> Stages \cup {"none"}] :
                 /\ publications' = [i \in DOMAIN publications |->
                       IF i \in DOMAIN details
                       THEN ProcessItem(i, details[i], fails[i])
                       ELSE publications[i]]
                 /\ last' = Answer("sync", 0, "ok", <<LogEntry("import", TRUE)>>, o.calls)
    /\ UNCHANGED <<vehiculos, now, clientVars, appVars>>

\* ------------------------------------ sync_publications, one item at a time
\* The local variables of a sync_publications run while it is in its loop:
\* the items still to process, the listing (ids), the rows that existed when
\* the run started (had), the items whose processing raised with the place
\* where it did, and the three counters.  A running sync keeps them in last.on.
SyncRun(pending, ids, had, failed, imported, updated, linked) ==
    [pending |-> pending, ids |-> ids, had |-> had, failed |-> failed,
     imported |-> imported, updated |-> updated, linked |-> linked]

Running == last.op = "sync" /\ last.result = "running"

\* the item ids that have a row in the MLPublication table
Rows == {i \in DOMAIN publications : publications[i].exists}

\* variant: update_or_create always inserts
CreatedAlways(i) == TRUE

\* the second value returned by update_or_create
Created(i) == ~publications[i].exists

\* the test before the linking of the row just written for item i
LinkWritten(i, d) ==
    /\ (IF publications[i].exists THEN publications[i].vehiculo ELSE 0) = 0
    /\ d.plate # 0
    /\ VehiculoByPatente(d.plate) # 0

\* the local variables after the turn of item i
AfterItem(run, i, d, stage) ==
    [run EXCEPT
       !.pending = @ \ {i},
       !.failed = IF stage = "none" THEN @ ELSE @ \cup {<<i, stage>>},
       !.imported = IF stage # "upsert" /\ Created(i) THEN @ + 1 ELSE @,
       !.updated = IF stage # "upsert" /\ ~Created(i) THEN @ + 1 ELSE @,
       !.linked = IF stage = "none" /\ LinkWritten(i, d) THEN @ + 1 ELSE @]

\* sync_publications up to the loop: get_all_user_items and
\* get_items_details_batch for a listing with the ids S
SyncBegin(S) ==
    /\ ~Running
    /\ ActiveUsers # {}
    /\ \E o \in ServiceCalls(credential[TheActive], now,
                             PageRequests(Cardinality(S)) + BatchRequests(Cardinality(S))) :
         /\ credential' = [credential EXCEPT ![TheActive] = o.cred]
         /\ last' = IF o.raised
                    THEN Answer("sync", 0, "ml_error", <<LogEntry("import", FALSE)>>, o.calls)
                    ELSE Answer("sync",
                                SyncRun(S, S, Rows, {}, 0, 0, 0),
                                "running", <<>>, o.calls)
    /\ UNCHANGED <<vehiculos, publications, now, clientVars, appVars>>

\* variant: an exception in the loop body ends the loop
SyncStepBreaks(d, stage) ==
    /\ Running
    /\ last.on.pending # {}
    /\ LET i == CHOOSE j \in last.on.pending : \A k \in last.on.pending : j <= k IN
       /\ publications' = [publications EXCEPT ![i] = ProcessItem(i, d, stage)]
       /\ last' = [last EXCEPT !.on =
              IF stage = "none" THEN AfterItem(@, i, d, stage)
              ELSE [AfterItem(@, i, d, stage) EXCEPT !.pending = {}]]
    /\ UNCHANGED <<credential, vehiculos, now, clientVars, appVars>>

\* one turn of the loop over items_details: the next item, with details d,
\* raising at stage or not at all
SyncStep(d, stage) ==
    /\ Running
    /\ last.on.pending # {}
    /\ LET i == CHOOSE j \in last.on.pending : \A k \in last.on.pending : j <= k IN
       /\ publications' = [publications EXCEPT ![i] = ProcessItem(i, d, stage)]
       /\ last' = [last EXCEPT !.on = AfterItem(@, i, d, stage)]
    /\ UNCHANGED <<credential, vehiculos, now, clientVars, appVars>>

\* after the loop: the IMPORT row with success = true and the answer
SyncEnd ==
    /\ Running
    /\ last.on.pending = {}
    /\ last' = [last EXCEPT !.result = "ok", !.log = <<LogEntry("import", TRUE)>>]
    /\ UNCHANGED <<dbVars, now, clientVars, appVars>>

\* the check at the top of VehiculoViewSet.publicar_ml
ViewRejectsPublish(v) == vehiculos[v].ml_item_id # 0

\* the check at the top of MLSyncService.publish_vehicle
ServiceRejectsPublish(v) ==
    vehiculos[v].ml_item_id # 0 /\ publications[vehiculos[v].ml_item_id].exists

\* item ids the marketplace can give to a new item
FreshItems ==
    {i \in DOMAIN publications : ~publications[i].exists
                   /\ \A v \in DOMAIN vehiculos : vehiculos[v].ml_item_id # i}

\* variant: a failed create leaves no MLSyncLog row and is tried once more
PublishVehicleRetries(v, e) ==
    \E o \in RequestChain(e, now, 1) :
      /\ credential' = [credential EXCEPT ![TheActive] = o.cred]
      /\ IF o.raised
         THEN /\ vehiculos' = [vehiculos EXCEPT ![v].ml_error = "error"]
              /\ last' = Answer("publish", v, "ml_error", <<>>, 2)
              /\ UNCHANGED publications
         ELSE \E i \in FreshItems, st \in CreateStatuses :
                /\ publications' = [publications EXCEPT ![i] = Pub(v, st, Patente(v))]
                /\ vehiculos' = [vehiculos EXCEPT ![v] =
                       Veh(TRUE, i, st, Permalink(i), "", vehiculos[v].deleted)]
                /\ last' = Answer("publish", v, "ok", <<LogEntry("create", TRUE)>>, o.calls)

\* MLSyncService.publish_vehicle, called with the client the view built
\* (e: the credential MLClient.__init__ left)
publish_vehicle(v, e) ==
    IF ServiceRejectsPublish(v)
    THEN /\ credential' = [credential EXCEPT ![TheActive] = e]
         /\ last' = Answer("publish", v, "ml_error", <<>>, 0)
         /\ UNCHANGED <<vehiculos, publications>>
    ELSE \E o \in RequestChain(e, now, 1) :
           /\ credential' = [credential EXCEPT ![TheActive] = o.cred]
           /\ IF o.raised
              THEN /\ vehiculos' = [vehiculos EXCEPT ![v].ml_error = "error"]
                   /\ last' = Answer("publish", v, "ml_error",
                                     <<LogEntry("create", FALSE)>>, o.calls)
                   /\ UNCHANGED publications
              ELSE \E i \in FreshItems, st \in CreateStatuses :
                     /\ publications' = [publications EXCEPT ![i] = Pub(v, st, Patente(v))]
                     /\ vehiculos' = [vehiculos EXCEPT ![v] =
                            Veh(TRUE, i, st, Permalink(i), "", vehiculos[v].deleted)]
                     /\ last' = Answer("publish", v, "ok",
                                       <<LogEntry("create", TRUE)>>, o.calls)

\* variant: the view leaves the already-published check to the service
PublicarMlServiceCheckOnly(v, include_deleted) ==
    /\ get_object(v, include_deleted)
    /\ ActiveUsers # {}
    /\ \E e \in _ensure_valid_token(credential[TheActive], now) : publish_vehicle(v, e)
    /\ UNCHANGED <<now, clientVars, appVars>>

\* POST /api/vehiculos/{id}/publicar-ml/
publicar_ml(v, include_deleted) ==
    /\ get_object(v, include_deleted)
    /\ IF ViewRejectsPublish(v)
       THEN /\ last' = Answer("publish", v, "rejected", <<>>, 0)
            /\ UNCHANGED dbVars
       ELSE /\ ActiveUsers # {}
            /\ \E e \in _ensure_valid_token(credential[TheActive], now) : publish_vehicle(v, e)
    /\ UNCHANGED <<now, clientVars, appVars>>

\* action_map of update_publication_status
ActionOf(st) == IF st = "active" THEN "activate" ELSE IF st = "paused" THEN "pause" ELSE "close"

\* variant: closing leaves publicado_en_ml as it was
VehiculoAfterStatusStaysPublished(veh, st) ==
    [veh EXCEPT !.ml_estado = st, !.ml_error = ""]

\* Vehiculo row after update_publication_status succeeded on its mirror
VehiculoAfterStatus(veh, st) ==
    [veh EXCEPT !.ml_estado = st, !.ml_error = "",
                !.publicado_en_ml = IF st = "closed" THEN FALSE ELSE veh.publicado_en_ml]

\* MLSyncService(credential).update_publication_status(publication, status)
update_publication_status(i, st) ==
    \E o \in ServiceCalls(credential[TheActive], now, 1) :
      /\ credential' = [credential EXCEPT ![TheActive] = o.cred]
      /\ IF o.raised
         THEN /\ last' = Answer("set_status", i, "ml_error", <<LogEntry(ActionOf(st), FALSE)>>, o.calls)
              /\ UNCHANGED <<vehiculos, publications>>
         ELSE /\ publications' = [publications EXCEPT ![i].ml_status = st]
              /\ vehiculos' = IF publications[i].vehiculo # 0
                              THEN [vehiculos EXCEPT ![publications[i].vehiculo] =
                                      VehiculoAfterStatus(@, st)]
                              ELSE vehiculos
              /\ last' = Answer("set_status", i, "ok", <<LogEntry(ActionOf(st), TRUE)>>, o.calls)

\* PATCH /api/mercadolibre/publications/{id}/status/
MLPublicationStatus(i, st) ==
    /\ publications[i].exists
    /\ ActiveUsers # {}
    /\ update_publication_status(i, st)
    /\ UNCHANGED <<now, clientVars, appVars>>

\* PATCH /api/vehiculos/{id}/ml-status/
ml_status(v, st, include_deleted) ==
    /\ get_object(v, include_deleted)
    /\ st \in {"active", "paused"}
    /\ vehiculos[v].ml_item_id # 0
    /\ ActiveUsers # {}
    /\ publications[vehiculos[v].ml_item_id].exists
    /\ update_publication_status(vehiculos[v].ml_item_id, st)
    /\ UNCHANGED <<now, clientVars, appVars>>

\* DELETE /api/vehiculos/{id}/cerrar-ml/
cerrar_ml(v, include_deleted) ==
    /\ get_object(v, include_deleted)
    /\ vehiculos[v].ml_item_id # 0
    /\ ActiveUsers # {}
    /\ publications[vehiculos[v].ml_item_id].exists
    /\ update_publication_status(vehiculos[v].ml_item_id, "closed")
    /\ UNCHANGED <<now, clientVars, appVars>>

\* POST /api/mercadolibre/publications/{id}/link/
link(i, v) ==
    /\ publications[i].exists
    /\ v \in DOMAIN vehiculos /\ ~vehiculos[v].deleted
    /\ ~\E j \in DOMAIN publications \ {i} : publications[j].exists /\ publications[j].vehiculo = v
    /\ publications' = [publications EXCEPT ![i].vehiculo = v]
    /\ IF \E w \in DOMAIN vehiculos \ {v} : vehiculos[w].ml_item_id = i
       THEN \* ml_item_id is unique: vehiculo.save() raises IntegrityError
            /\ last' = Answer("link", i, "error", <<>>, 0)
            /\ UNCHANGED vehiculos
       ELSE /\ vehiculos' = [vehiculos EXCEPT ![v] =
                  [@ EXCEPT !.publicado_en_ml = TRUE, !.ml_item_id = i,
                            !.ml_estado = publications[i].ml_status,
                            !.ml_permalink = Permalink(i)]]
            /\ last' = Answer("link", i, "ok", <<>>, 0)
    /\ UNCHANGED <<credential, now, clientVars, appVars>>

\* POST /api/mercadolibre/publications/{id}/unlink/
unlink(i) ==
    /\ publications[i].exists
    /\ publications[i].vehiculo # 0
    /\ vehiculos' = [vehiculos EXCEPT ![publications[i].vehiculo] =
           [@ EXCEPT !.publicado_en_ml = FALSE, !.ml_item_id = 0, !.ml_estado = "",
                     !.ml_permalink = 0, !.ml_error = ""]]
    /\ publications' = [publications EXCEPT ![i].vehiculo = 0]
    /\ last' = Answer("unlink", publications[i].vehiculo, "ok", <<>>, 0)
    /\ UNCHANGED <<credential, now, clientVars, appVars>>

\* DELETE /api/mercadolibre/publications/{id}/ (ModelViewSet.destroy)
destroy(i) ==
    /\ publications[i].exists
    /\ publications' = [publications EXCEPT ![i] = NoPub]
    /\ last' = Answer("destroy", i, "ok", <<>>, 0)
    /\ UNCHANGED <<credential, vehiculos, now, clientVars, appVars>>

\* DELETE /api/vehiculos/{id}/ (perform_destroy -> Vehiculo.soft_delete, which
\* saves deleted_at and the auto_now column updated_at)
perform_destroy(v, include_deleted) ==
    /\ get_object(v, include_deleted)
    /\ vehiculos' = [vehiculos EXCEPT ![v].deleted = TRUE]
    /\ fichas' = [fichas EXCEPT ![v].updated_at = now]
    /\ last' = Answer("delete_vehicle", v, "ok", <<>>, 0)
    /\ UNCHANGED <<credential, publications, now, clientVars, session, reservas, imagenes, year>>

\* POST /api/vehiculos/{id}/restaurar/ (Vehiculo.objects.get, Vehiculo.restore)
restaurar(v) ==
    /\ v \in DOMAIN vehiculos
    /\ vehiculos[v].deleted
    /\ vehiculos' = [vehiculos EXCEPT ![v].deleted = FALSE]
    /\ fichas' = [fichas EXCEPT ![v].updated_at = now]
    /\ last' = Answer("restaurar", v, "ok", <<>>, 0)
    /\ UNCHANGED <<credential, publications, now, clientVars, session, reservas, imagenes, year>>

\* Vehiculo.is_deleted
is_deleted(v) == vehiculos[v].deleted

\* variant: availability without the soft-delete test
disponible_of_deleted(v) == ~fichas[v].vendido /\ ~fichas[v].reservado

\* Vehiculo.disponible
disponible(v) == ~fichas[v].vendido /\ ~fichas[v].reservado /\ ~is_deleted(v)

\* variant: a sold vehicle stays on the web site
VendidoStillOnWeb(ficha, t) ==
    [ficha EXCEPT !.vendido = TRUE, !.reservado = FALSE, !.updated_at = t]

\* the columns marcar_vendido and marcar_entregado save on the vehicle
Vendido(ficha, t) ==
    [ficha EXCEPT !.vendido = TRUE, !.reservado = FALSE, !.mostrar_en_web = FALSE,
                  !.updated_at = t]

\* PATCH /api/vehiculos/{id}/marcar-vendido/
marcar_vendido(v, include_deleted) ==
    /\ get_object(v, include_deleted)
    /\ fichas' = [fichas EXCEPT ![v] = Vendido(@, now)]
    /\ last' = Answer("marcar_vendido", v, "ok", <<>>, 0)
    /\ UNCHANGED <<dbVars, now, clientVars, session, reservas, imagenes, year>>

\* PATCH /api/vehiculos/{id}/marcar-reservado/
marcar_reservado(v, include_deleted) ==
    /\ get_object(v, include_deleted)
    /\ fichas' = [fichas EXCEPT ![v].reservado = ~@, ![v].updated_at = now]
    /\ last' = Answer("marcar_reservado", v, "ok", <<>>, 0)
    /\ UNCHANGED <<dbVars, now, clientVars, session, reservas, imagenes, year>>

\* the clock advances
Tick ==
    /\ \E d \in Elapse : now + d <= MaxTime /\ now' = now + d
    /\ UNCHANGED <<dbVars, last, clientVars, appVars>>

\* ------------------------------------------- one service call, step by step
\* Two overlapping requests, each building an MLClient and making one API
\* call, followed statement by statement.  mem[p] is the MLCredential instance
\* request p holds in memory; credential is the row in the database.
NoResp == [kind |-> "none"]

NewTrace ==
    [ret |-> "none",        \* where the running _refresh_token returns to
     sent |-> 0,            \* HTTP requests sent to the API endpoint
     refreshes |-> 0,       \* _refresh_token calls completed
     on401 |-> 0,           \* _refresh_token calls started by a 401 answer
     pending |-> NoResp,    \* answer of the exchange in flight
     resp |-> NoResp,       \* answer the latest _refresh_token handled
     log |-> <<>>]          \* MLSyncLog rows written by this request

\* the except MLAPIError / success tail of the service method: get_quota
\* writes no MLSyncLog row, sync_publications writes an IMPORT row
Finish(p, tr, ok) ==
    [tr EXCEPT !.log = IF p = "quota" THEN @ ELSE Append(@, LogEntry(p, ok))]

\* variant: the marketplace also accepts a refresh token it has replaced
ExchangeAcceptsUsedToken(tok) ==
    TokenOk({(tok % MaxToken) + 1}) \cup TokenFail \cup {NetworkError}

\* answers of POST /oauth/token to a refresh_token grant carrying tok: the
\* marketplace accepts only the refresh token it issued last, and replaces it
ExchangeResponses(tok) ==
    (IF tok = mlRefresh /\ mlRefresh < MaxToken THEN TokenOk({mlRefresh + 1}) ELSE {})
    \cup TokenFail \cup {NetworkError}

\* the view loads MLCredential.objects.get(is_active=True) and builds the
\* service: MLClient.__init__ runs _ensure_valid_token
Begin(p) ==
    /\ pc[p] = "idle"
    /\ ActiveUsers # {}
    /\ LET c == credential[TheActive] IN
       /\ mem' = [mem EXCEPT ![p] = c]
       /\ IF needs_refresh(c, now)
          THEN /\ pc' = [pc EXCEPT ![p] = "exchange"]
               /\ trace' = [trace EXCEPT ![p] = [NewTrace EXCEPT !.ret = "request"]]
          ELSE /\ pc' = [pc EXCEPT ![p] = "request"]
               /\ trace' = [trace EXCEPT ![p] = NewTrace]
    /\ UNCHANGED <<dbVars, now, last, mlRefresh, appVars>>

\* _refresh_token: requests.post(.../oauth/token) and the marketplace's answer
Exchange(p, r) ==
    /\ pc[p] = "exchange"
    /\ r \in ExchangeResponses(mem[p].refresh_token)
    /\ trace' = [trace EXCEPT ![p].pending = r]
    /\ mlRefresh' = IF r.kind = "http" /\ r.status = 200 THEN r.token ELSE mlRefresh
    /\ pc' = [pc EXCEPT ![p] = "apply"]
    /\ UNCHANGED <<dbVars, now, last, mem, appVars>>

\* _refresh_token after the answer arrived: update, save() and log; then the
\* caller goes on (the constructor, _ensure_valid_token of _request, or the
\* 401 branch of _request)
Apply(p) ==
    /\ pc[p] = "apply"
    /\ LET r == trace[p].pending
           o == _refresh_token(mem[p], r, now)
           saved == r.kind = "http" /\ (r.status = 200 \/ Invalidates(r))
           tr == [trace[p] EXCEPT !.pending = NoResp, !.resp = r, !.refreshes = @ + 1,
                                  !.log = @ \o o.log]
       IN /\ mem' = [mem EXCEPT ![p] = o.cred]
          /\ credential' = IF saved
                           THEN [u \in DOMAIN credential |-> o.cred]
                           ELSE credential
          /\ IF tr.ret = "resend" /\ ~o.ok
             THEN /\ pc' = [pc EXCEPT ![p] = "raised"]
                  /\ trace' = [trace EXCEPT ![p] = Finish(p, tr, FALSE)]
             ELSE /\ pc' = [pc EXCEPT ![p] = tr.ret]
                  /\ trace' = [trace EXCEPT ![p] = tr]
    /\ UNCHANGED <<vehiculos, publications, now, last, mlRefresh, appVars>>

\* _request up to the HTTP call: the is_active check, then _ensure_valid_token
Request(p) ==
    /\ pc[p] = "request"
    /\ IF ~mem[p].is_active
       THEN /\ pc' = [pc EXCEPT ![p] = "raised"]
            /\ trace' = [trace EXCEPT ![p] = Finish(p, @, FALSE)]
       ELSE IF needs_refresh(mem[p], now)
       THEN /\ pc' = [pc EXCEPT ![p] = "exchange"]
            /\ trace' = [trace EXCEPT ![p].ret = "send"]
       ELSE /\ pc' = [pc EXCEPT ![p] = "send"]
            /\ UNCHANGED trace
    /\ UNCHANGED <<dbVars, now, last, mem, mlRefresh, appVars>>

\* _request: requests.request(...) and the handling of its answer
Send(p, r) ==
    /\ pc[p] = "send"
    /\ r \in ApiResponses
    /\ LET tr == [trace[p] EXCEPT !.sent = @ + 1] IN
       IF r.kind = "http" /\ r.status = 401
       THEN /\ pc' = [pc EXCEPT ![p] = "exchange"]
            /\ trace' = [trace EXCEPT ![p] = [tr EXCEPT !.ret = "resend", !.on401 = @ + 1]]
       ELSE IF r.kind = "network" \/ r.status >= 400
       THEN /\ pc' = [pc EXCEPT ![p] = "raised"]
            /\ trace' = [trace EXCEPT ![p] = Finish(p, tr, FALSE)]
       ELSE /\ pc' = [pc EXCEPT ![p] = "done"]
            /\ trace' = [trace EXCEPT ![p] = Finish(p, tr, TRUE)]
    /\ UNCHANGED <<dbVars, now, last, mem, mlRefresh, appVars>>

\* variant: a 401 on the retry starts another refresh and retry
ResendRetriesAgain(p, r) ==
    /\ pc[p] = "resend"
    /\ r \in ApiResponses
    /\ LET tr == [trace[p] EXCEPT !.sent = @ + 1] IN
       IF r.kind = "http" /\ r.status = 401
       THEN /\ pc' = [pc EXCEPT ![p] = "exchange"]
            /\ trace' = [trace EXCEPT ![p] = [tr EXCEPT !.ret = "resend", !.on401 = @ + 1]]
       ELSE IF r.kind = "network" \/ r.status >= 400
       THEN /\ pc' = [pc EXCEPT ![p] = "raised"]
            /\ trace' = [trace EXCEPT ![p] = Finish(p, tr, FALSE)]
       ELSE /\ pc' = [pc EXCEPT ![p] = "done"]
            /\ trace' = [trace EXCEPT ![p] = Finish(p, tr, TRUE)]
    /\ UNCHANGED <<dbVars, now, last, mem, mlRefresh, appVars>>

\* _request: the retry after a 401 and a successful refresh
Resend(p, r) ==
    /\ pc[p] = "resend"
    /\ r \in ApiResponses
    /\ LET tr == [trace[p] EXCEPT !.sent = @ + 1]
           failed == r.kind = "network" \/ r.status >= 400
       IN /\ pc' = [pc EXCEPT ![p] = IF failed THEN "raised" ELSE "done"]
          /\ trace' = [trace EXCEPT ![p] = Finish(p, tr, ~failed)]
    /\ UNCHANGED <<dbVars, now, last, mem, mlRefresh, appVars>>

\* ------------------------------------------------------------ Reserva rows
TipoOperacion == {"used", "new", "external"}
Dominios == {"", "AB123CD"}
Chasis == {"", "8AP359A"}

\* numero_reserva 'RES-<year>-<digits>': the year and the characters after
\* the second dash, as a sequence of decimal digits
Numero(y, digits) == [year |-> y, digits |-> digits]
NoNumero == Numero(0, <<>>)

\* str(n) in decimal
RECURSIVE Digits(_)
Digits(n) == IF n < 10 THEN <<n>> ELSE Append(Digits(n \div 10), n % 10)

\* f'{n:05d}': padded with zeros on the left up to PadWidth, never truncated
Format05d(n) ==
    LET d == Digits(n)
        pad == IF Len(d) >= PadWidth THEN 0 ELSE PadWidth - Len(d) IN
    [k \in 1..(pad + Len(d)) |-> IF k <= pad THEN 0 ELSE d[k - pad]]

\* int(s) of a string of decimal digits
RECURSIVE ToInt(_)
ToInt(d) == IF d = <<>> THEN 0 ELSE 10 * ToInt(SubSeq(d, 1, Len(d) - 1)) + d[Len(d)]

\* a < b as the database orders strings: by the first character that differs,
\* a proper prefix before the longer string
StrLess(a, b) ==
    \/ \E k \in 1..Min(Len(a), Len(b)) :
         /\ \A j \in 1..(k - 1) : a[j] = b[j]
         /\ a[k] < b[k]
    \/ /\ Len(a) < Len(b)
       /\ \A j \in 1..Len(a) : a[j] = b[j]

NoReserva ==
    [exists |-> FALSE, tipo_operacion |-> "", vehiculo |-> 0, dominio |-> "",
     numero_chasis |-> "", numero_reserva |-> NoNumero, estado |-> "", entregado |-> FALSE]

\* the rows whose numero_reserva starts with 'RES-<year>-'
OfYear(rows, y) ==
    {r \in DOMAIN rows : rows[r].exists /\ rows[r].numero_reserva.year = y}

\* Reserva._generar_numero_reserva: one more than the number of the row that
\* order_by('-numero_reserva').first() returns, 1 when there is none
_generar_numero_reserva(rows, y) ==
    LET same == OfYear(rows, y) IN
    IF same = {} THEN Numero(y, Format05d(1))
    ELSE LET first == CHOOSE r \in same : \A q \in same :
                         ~StrLess(rows[r].numero_reserva.digits, rows[q].numero_reserva.digits)
             last_num == ToInt(rows[first].numero_reserva.digits)
         IN  Numero(y, Format05d(last_num + 1))

\* the request bodies: any subset of the fields, each with any value its
\* serializer field accepts (vehiculo null is 0, blank strings are allowed)
ReservaFields == {"tipo_operacion", "vehiculo", "dominio", "numero_chasis"}
Payloads ==
    {[f \in F |-> full[f]] :
       F \in SUBSET ReservaFields,
       full \in [tipo_operacion : TipoOperacion, vehiculo : {0} \cup DOMAIN vehiculos,
                 dominio : Dominios, numero_chasis : Chasis]}

\* data.get(f) or (self.instance.f if self.instance else None); empty is the
\* falsy value of the field
GetOr(data, inst, f, empty) ==
    IF f \in DOMAIN data /\ data[f] # empty THEN data[f]
    ELSE IF inst.exists THEN inst[f] ELSE empty

\* ReservaSerializer.validate passes
validate(data, inst) ==
    LET tipo == GetOr(data, inst, "tipo_operacion", "")
        vehiculo == GetOr(data, inst, "vehiculo", 0)
        dominio == GetOr(data, inst, "dominio", "")
        numero_chasis == GetOr(data, inst, "numero_chasis", "") IN
    /\ tipo = "used" => (vehiculo # 0 /\ dominio # "")
    /\ tipo = "new" => (vehiculo # 0 /\ numero_chasis # "")

\* ModelSerializer.create / update: the validated fields are set on the row
Assigned(row, data) ==
    [f \in DOMAIN row |-> IF f \in DOMAIN data THEN data[f] ELSE row[f]]

\* the primary key the next INSERT gets
FreeSlots == {r \in DOMAIN reservas : ~reservas[r].exists}
NextPk == CHOOSE r \in FreeSlots : \A q \in FreeSlots : r <= q

\* POST /api/reservas/ (ReservaCreateSerializer, then Reserva.save); the
\* unique constraint on numero_reserva rejects a number that is taken
ReservaCreate(data) ==
    /\ FreeSlots # {}
    /\ "tipo_operacion" \in DOMAIN data
    /\ validate(data, NoReserva)
    /\ LET numero == _generar_numero_reserva(reservas, year)
           row == [Assigned(NoReserva, data) EXCEPT
                     !.exists = TRUE, !.numero_reserva = numero, !.estado = "pending"]
       IN  IF \E r \in DOMAIN reservas : reservas[r].exists /\ reservas[r].numero_reserva = numero
           THEN /\ last' = Answer("reserva_create", 0, "integrity_error", <<>>, 0)
                /\ UNCHANGED reservas
           ELSE /\ reservas' = [reservas EXCEPT ![NextPk] = row]
                /\ last' = Answer("reserva_create", NextPk, "ok", <<>>, 0)
    /\ UNCHANGED <<dbVars, now, clientVars, session, fichas, imagenes, year>>

\* PUT (partial = FALSE) and PATCH (partial = TRUE) /api/reservas/{r}/
ReservaUpdate(r, data, partial) ==
    /\ r \in DOMAIN reservas /\ reservas[r].exists
    /\ partial \/ "tipo_operacion" \in DOMAIN data
    /\ validate(data, reservas[r])
    /\ reservas' = [reservas EXCEPT ![r] = Assigned(@, data)]
    /\ last' = Answer(IF partial THEN "reserva_patch" ELSE "reserva_put", r, "ok", <<>>, 0)
    /\ UNCHANGED <<dbVars, now, clientVars, session, fichas, imagenes, year>>

\* PATCH /api/reservas/{r}/marcar-entregado/
marcar_entregado(r) ==
    /\ r \in DOMAIN reservas /\ reservas[r].exists
    /\ reservas' = [reservas EXCEPT ![r].entregado = TRUE, ![r].estado = "delivered"]
    /\ fichas' = IF reservas[r].vehiculo # 0
                 THEN [fichas EXCEPT ![reservas[r].vehiculo] = Vendido(@, now)]
                 ELSE fichas
    /\ last' = Answer("marcar_entregado", r, "ok", <<>>, 0)
    /\ UNCHANGED <<dbVars, now, clientVars, session, imagenes, year>>

\* PATCH /api/reservas/{r}/anular/ with perder_sena in the body
anular(r, perder_sena) ==
    /\ r \in DOMAIN reservas /\ reservas[r].exists
    /\ reservas' = [reservas EXCEPT ![r].estado =
                      IF perder_sena THEN "cancelled_lost_deposit" ELSE "cancelled"]
    /\ fichas' = IF reservas[r].vehiculo # 0
                 THEN [fichas EXCEPT ![reservas[r].vehiculo].reservado = FALSE,
                                     ![reservas[r].vehiculo].updated_at = now]
                 ELSE fichas
    /\ last' = Answer("anular", r, "ok", <<>>, 0)
    /\ UNCHANGED <<dbVars, now, clientVars, session, imagenes, year>>

\* the first January 1st after now
NewYear ==
    /\ year < FirstYear + NumYears - 1
    /\ year' = year + 1
    /\ UNCHANGED <<dbVars, now, last, clientVars, session, reservas, fichas, imagenes>>

\* ------------------------------------------------------- ImagenVehiculo rows
NoImagen == [exists |-> FALSE, vehiculo |-> 0, orden |-> 0, es_principal |-> FALSE]

\* vehiculo.imagenes
ImagenesDe(v) == {i \in DOMAIN imagenes : imagenes[i].exists /\ imagenes[i].vehiculo = v}

\* variant: save() without the update of the other images
SaveKeepsOthers(rows, i, row) == [rows EXCEPT ![i] = row]

\* ImagenVehiculo.save of the image i with the values row on the table rows:
\* a primary image first clears es_principal on the vehicle's other images
ImagenVehiculo_save(rows, i, row) ==
    [j \in DOMAIN rows |->
       IF j = i THEN row
       ELSE IF row.es_principal /\ rows[j].exists /\ rows[j].vehiculo = row.vehiculo
            THEN [rows[j] EXCEPT !.es_principal = FALSE]
            ELSE rows[j]]

FreeImagenes == {i \in DOMAIN imagenes : ~imagenes[i].exists}

\* POST /api/vehiculos/{v}/imagenes/ with orden and es_principal in the form
imagenes_upload(v, orden, es_principal) ==
    /\ get_object(v, FALSE)
    /\ Cardinality(ImagenesDe(v)) < MaxImagenes
    /\ FreeImagenes # {}
    /\ LET i == CHOOSE k \in FreeImagenes : \A q \in FreeImagenes : k <= q IN
       /\ imagenes' = ImagenVehiculo_save(imagenes, i,
              [exists |-> TRUE, vehiculo |-> v, orden |-> orden, es_principal |-> es_principal])
       /\ last' = Answer("imagenes", i, "ok", <<>>, 0)
    /\ UNCHANGED <<dbVars, now, clientVars, session, reservas, fichas, year>>

\* DELETE /api/vehiculos/{v}/imagenes/{i}/
eliminar_imagen(v, i) ==
    /\ get_object(v, FALSE)
    /\ i \in ImagenesDe(v)
    /\ imagenes' = [imagenes EXCEPT ![i] = NoImagen]
    /\ last' = Answer("eliminar_imagen", i, "ok", <<>>, 0)
    /\ UNCHANGED <<dbVars, now, clientVars, session, reservas, fichas, year>>

\* PATCH /api/vehiculos/{v}/reordenar-imagenes/ with the list orden_data of
\* {id, orden}, here a function from the ids to the new orden
reordenar_imagenes(v, orden_data) ==
    /\ get_object(v, FALSE)
    /\ DOMAIN orden_data # {}
    /\ DOMAIN orden_data \subseteq ImagenesDe(v)
    /\ imagenes' = [i \in DOMAIN imagenes |->
                      IF i \in DOMAIN orden_data
                      THEN [imagenes[i] EXCEPT !.orden = orden_data[i]]
                      ELSE imagenes[i]]
    /\ last' = Answer("reordenar_imagenes", v, "ok", <<>>, 0)
    /\ UNCHANGED <<dbVars, now, clientVars, session, reservas, fichas, year>>

\* PATCH /api/vehiculos/{v}/imagenes/{i}/principal/
marcar_principal(v, i) ==
    /\ get_object(v, FALSE)
    /\ i \in ImagenesDe(v)
    /\ LET cleared == [j \in DOMAIN imagenes |->
                         IF j \in ImagenesDe(v)
                         THEN [imagenes[j] EXCEPT !.es_principal = FALSE]
                         ELSE imagenes[j]]
       IN imagenes' = ImagenVehiculo_save(cleared, i, [cleared[i] EXCEPT !.es_principal = TRUE])
    /\ last' = Answer("marcar_principal", i, "ok", <<>>, 0)
    /\ UNCHANGED <<dbVars, now, clientVars, session, reservas, fichas, year>>

\* ---------------------------------------- uploads of images, step by step
\* Two upload requests for the same vehicle, each followed from the count
\* check of VehiculoViewSet.imagenes to serializer.save: nothing holds a lock
\* between the two statements.
Uploaders == {"a", "b"}

\* vehiculo = self.get_object() and the test of vehiculo.imagenes.count()
UploadCheck(p, v) ==
    /\ pc[p] = "idle"
    /\ get_object(v, FALSE)
    /\ IF Cardinality(ImagenesDe(v)) >= MaxImagenes
       THEN /\ last' = Answer("imagenes", v, "max_images", <<>>, 0)
            /\ UNCHANGED pc
       ELSE /\ pc' = [pc EXCEPT ![p] = "checked"]
            /\ UNCHANGED last
    /\ UNCHANGED <<dbVars, now, mem, trace, mlRefresh, appVars>>

\* serializer.save(vehiculo=vehiculo) and the 201 answer
UploadSave(p, v, orden, es_principal) ==
    /\ pc[p] = "checked"
    /\ FreeImagenes # {}
    /\ LET i == CHOOSE k \in FreeImagenes : \A q \in FreeImagenes : k <= q IN
       /\ imagenes' = ImagenVehiculo_save(imagenes, i,
              [exists |-> TRUE, vehiculo |-> v, orden |-> orden, es_principal |-> es_principal])
       /\ last' = Answer("imagenes", i, "ok", <<>>, 0)
    /\ pc' = [pc EXCEPT ![p] = "idle"]
    /\ UNCHANGED <<dbVars, now, mem, trace, mlRefresh, session, reservas, fichas, year>>

\* ------------------------------------------ the two token properties, alone
\* one minute passes
Minute ==
    /\ now < MaxClock
    /\ now' = now + 1
    /\ UNCHANGED <<dbVars, last, clientVars, appVars>>

\* a read of credential.needs_refresh and credential.is_token_expired at now
TokenCheck(u) ==
    /\ u \in DOMAIN credential /\ credential[u].exists
    /\ last' = Answer("token_check",
                      [t |-> now, expires_at |-> credential[u].expires_at,
                       needs_refresh |-> needs_refresh(credential[u], now),
                       is_token_expired |-> is_token_expired(credential[u], now)],
                      "ok", <<>>, 0)
    /\ UNCHANGED <<dbVars, now, clientVars, appVars>>

\* ------------------------------------------------- Reserva costs and FormaPago
\* the cost columns of Reserva (Decimal with two places, here in cents)
CostFields ==
    {"precio_venta", "comision_vendedor", "comision_comprador", "gestion_credito",
     "gastos_transferencia", "costo_patentamiento", "costo_flete", "impuestos",
     "otros_gastos"}

\* a stored reservation with the cost columns c and its related FormaPago
\* rows: formas_pago[k] is the monto of payment k, 0 when there is no row k
ReservaConCostos(c, pagos) ==
    [exists |-> TRUE, tipo_operacion |-> "external", vehiculo |-> 0, dominio |-> "",
     numero_chasis |-> "", numero_reserva |-> Numero(FirstYear, Format05d(1)),
     estado |-> "pending", entregado |-> FALSE,
     precio_venta |-> c.precio_venta, comision_vendedor |-> c.comision_vendedor,
     comision_comprador |-> c.comision_comprador, gestion_credito |-> c.gestion_credito,
     gastos_transferencia |-> c.gastos_transferencia,
     costo_patentamiento |-> c.costo_patentamiento, costo_flete |-> c.costo_flete,
     impuestos |-> c.impuestos, otros_gastos |-> c.otros_gastos,
     formas_pago |-> pagos]

\* variant: the total without the two 0km costs
total_operacion_usados(row) ==
    row.precio_venta + row.comision_vendedor + row.comision_comprador
    + row.gestion_credito + row.gastos_transferencia + row.impuestos + row.otros_gastos

\* Reserva.total_operacion
total_operacion(row) ==
    row.precio_venta + row.comision_vendedor + row.comision_comprador
    + row.gestion_credito + row.gastos_transferencia + row.costo_patentamiento
    + row.costo_flete + row.impuestos + row.otros_gastos

\* sum(fp.monto for fp in self.formas_pago.all()), payment by payment
RECURSIVE SumMontos(_, _)
SumMontos(pagos, ids) ==
    IF ids = {} THEN 0
    ELSE LET k == CHOOSE x \in ids : TRUE IN pagos[k] + SumMontos(pagos, ids \ {k})

\* Reserva.total_pagado
total_pagado(row) ==
    SumMontos(row.formas_pago, {k \in DOMAIN row.formas_pago : row.formas_pago[k] # 0})

\* Reserva.saldo_pendiente
saldo_pendiente(row) == total_operacion(row) - total_pagado(row)

\* POST /api/reservas/{r}/formas-pago/ with a valid body of amount monto
agregar_forma_pago(r, monto) ==
    /\ r \in DOMAIN reservas /\ reservas[r].exists
    /\ monto >= 1
    /\ \E k \in DOMAIN reservas[r].formas_pago :
         /\ reservas[r].formas_pago[k] = 0
         /\ \A q \in DOMAIN reservas[r].formas_pago : reservas[r].formas_pago[q] = 0 => k <= q
         /\ reservas' = [reservas EXCEPT ![r].formas_pago[k] = monto]
         /\ last' = Answer("agregar_forma_pago", r, "ok", <<>>, 0)
    /\ UNCHANGED <<dbVars, now, clientVars, session, fichas, imagenes, year>>

\* DELETE /api/reservas/{r}/formas-pago/{fp_id}/
eliminar_forma_pago(r, fp_id) ==
    /\ r \in DOMAIN reservas /\ reservas[r].exists
    /\ fp_id \in DOMAIN reservas[r].formas_pago
    /\ reservas[r].formas_pago[fp_id] # 0
    /\ reservas' = [reservas EXCEPT ![r].formas_pago[fp_id] = 0]
    /\ last' = Answer("eliminar_forma_pago", r, "ok", <<>>, 0)
    /\ UNCHANGED <<dbVars, now, clientVars, session, fichas, imagenes, year>>

\* ------------------------------------------------------------ extract_patente
\* strings are sequences of one-character strings
LowerCase ==
    <<"a", "b", "c", "d", "e", "f", "g", "h", "i", "j", "k", "l", "m",
      "n", "o", "p", "q", "r", "s", "t", "u", "v", "w", "x", "y", "z">>
UpperCase ==
    <<"A", "B", "C", "D", "E", "F", "G", "H", "I", "J", "K", "L", "M",
      "N", "O", "P", "Q", "R", "S", "T", "U", "V", "W", "X", "Y", "Z">>
DigitChars == {"0", "1", "2", "3", "4", "5", "6", "7", "8", "9"}

\* str.upper(), character by character
upper_char(c) ==
    IF \E k \in 1..Len(LowerCase) : LowerCase[k] = c
    THEN UpperCase[CHOOSE k \in 1..Len(LowerCase) : LowerCase[k] = c]
    ELSE c
upper(str) == [k \in 1..Len(str) |-> upper_char(str[k])]

\* the character classes of the patterns: \s, \d, [A-Z] and \w
IsSpace(c) == c \in {" "}
IsDigit(c) == c \in DigitChars
IsUpperLetter(c) == \E k \in 1..Len(UpperCase) : UpperCase[k] = c
IsWordChar(c) ==
    \/ IsUpperLetter(c) \/ IsDigit(c) \/ c = "_"
    \/ \E k \in 1..Len(LowerCase) : LowerCase[k] = c

\* variant: whitespace and hyphens removed, case kept
normalize_patente_keep_case(patente) ==
    SelectSeq(patente, LAMBDA c : ~(IsSpace(c) \/ c = "-"))

\* re.sub(r'[\s\-]', '', patente).upper()
normalize_patente(patente) ==
    upper(SelectSeq(patente, LAMBDA c : ~(IsSpace(c) \/ c = "-")))

\* \b at position i of str: a word character on exactly one side
WordBoundary(str, i) ==
    (i > 1 /\ i - 1 <= Len(str) /\ IsWordChar(str[i - 1]))
      # (i >= 1 /\ i <= Len(str) /\ IsWordChar(str[i]))

\* the two patterns between their \b: L is [A-Z], D is \d, S is \s?
NewShape == <<"L", "L", "S", "D", "D", "D", "S", "L", "L">>
OldShape == <<"L", "L", "L", "S", "D", "D", "D">>
\* variant: the old format tried first
patterns_old_first == <<OldShape, NewShape>>
patterns == <<NewShape, OldShape>>

\* the regex engine on one shape: the position after the match that starts
\* at i with element k of the shape, 0 when there is none
RECURSIVE MatchFrom(_, _, _, _)
MatchFrom(str, i, shape, k) ==
    IF k > Len(shape) THEN i
    ELSE IF shape[k] = "S"
    THEN IF i <= Len(str) /\ IsSpace(str[i])
         THEN LET m == MatchFrom(str, i + 1, shape, k + 1)
              IN  IF m # 0 THEN m ELSE MatchFrom(str, i, shape, k + 1)
         ELSE MatchFrom(str, i, shape, k + 1)
    ELSE IF /\ i <= Len(str)
            /\ \/ shape[k] = "L" /\ IsUpperLetter(str[i])
               \/ shape[k] = "D" /\ IsDigit(str[i])
    THEN MatchFrom(str, i + 1, shape, k + 1)
    ELSE 0

MatchAt(str, i, shape) ==
    IF ~WordBoundary(str, i) THEN 0
    ELSE LET e == MatchFrom(str, i, shape, 1)
         IN  IF e # 0 /\ WordBoundary(str, e) THEN e ELSE 0

\* re.search(pattern, str): the leftmost match, found FALSE for None
re_search(shape, str) ==
    LET starts == {i \in 1..Len(str) : MatchAt(str, i, shape) # 0}
    IN  IF starts = {} THEN [found |-> FALSE, group |-> <<>>]
        ELSE LET i == CHOOSE x \in starts : \A z \in starts : x <= z
             IN  [found |-> TRUE, group |-> SubSeq(str, i, MatchAt(str, i, shape) - 1)]

PlateAttributeIds ==
    {<<"L", "I", "C", "E", "N", "S", "E", "_", "P", "L", "A", "T", "E">>,
     <<"V", "E", "H", "I", "C", "L", "E", "_", "L", "I", "C", "E", "N", "S", "E", "_",
       "P", "L", "A", "T", "E">>,
     <<"P", "L", "A", "T", "E">>}

\* attr.get('value_name', '') or attr.get('value_id', '')
AttrValue(attr) == IF attr.value_name # <<>> THEN attr.value_name ELSE attr.value_id

\* the loop over the patterns, from pattern k on
RECURSIVE SearchTitle(_, _)
SearchTitle(title_upper, k) ==
    IF k > Len(patterns) THEN <<>>
    ELSE LET match == re_search(patterns[k], title_upper)
         IN  IF match.found THEN normalize_patente(match.group)
             ELSE SearchTitle(title_upper, k + 1)

\* MLSyncService.extract_patente(title, attributes)
extract_patente(title, attributes) ==
    LET hits == {k \in 1..Len(attributes) :
                    /\ upper(attributes[k].id) \in PlateAttributeIds
                    /\ AttrValue(attributes[k]) # <<>>}
    IN  IF hits # {}
        THEN normalize_patente(AttrValue(attributes[CHOOSE k \in hits : \A z \in hits : k <= z]))
        ELSE SearchTitle(upper(title), 1)

\* titles are built from these pieces
Frags == {<<"a", "b">>, <<"C">>, <<"1", "2", "3">>, <<" ">>}
RECURSIVE Flatten(_)
Flatten(pieces) == IF pieces = <<>> THEN <<>> ELSE Head(pieces) \o Flatten(Tail(pieces))
ExampleOld ==
    <<"F", "o", "r", "d", " ", "F", "i", "e", "s", "t", "a", " ",
      "A", "B", "C", "1", "2", "3", " ", "2", "0", "2", "0">>
ExampleNew ==
    <<"T", "o", "y", "o", "t", "a", " ", "A", "B", "1", "2", "3", "C", "D", " ",
      "2", "0", "2", "3">>
\* a hyphen inside a plate, and hyphens around one
HyphenTitles ==
    {<<"a", "b", "C", "-", "1", "2", "3">>, <<"-", "a", "b", "C", "1", "2", "3", "-">>}
Titles ==
    {Flatten(f) : f \in UNION {[1..n -> Frags] : n \in 0..MaxFrags}}
      \cup {ExampleOld, ExampleNew} \cup HyphenTitles
\* the titles of the items that carry attributes
AttrTitles == {<<>>, <<"a", "b", "C", "1", "2", "3">>}
AttrIds ==
    {<<"L", "I", "C", "E", "N", "S", "E", "_", "P", "L", "A", "T", "E">>,
     <<"p", "l", "a", "t", "e">>,
     <<"C", "O", "L", "O", "R">>}
AttrValues == {<<>>, <<"a", "d", "-", "1">>, <<" ">>}
Attrs == [id : AttrIds, value_name : AttrValues, value_id : {<<>>, <<"x", "1">>}]
AttrLists == UNION {[1..n -> Attrs] : n \in 0..MaxAttrs}

\* the sync reads the plate of the item it fetched
ExtractPatente ==
    /\ last.op = "get_item"
    /\ last' = Answer("extract_patente", last.on,
                      extract_patente(last.on.title, last.on.attributes), <<>>, 0)
    /\ UNCHANGED <<dbVars, now, clientVars, appVars>>

\* -------------------------------------- Reserva.save, statement by statement
\* Two POST /api/reservas/ requests can overlap: Reserva.save reads the
\* highest number and inserts the row in two statements with no lock between
\* them.  mem[p] holds the number request p generated; trace[p] keeps the
\* numbers of the reservations the requests of p created.
Creators == {"a", "b"}

GivenCount == Len(trace["a"]) + Len(trace["b"])

\* self.numero_reserva = self._generar_numero_reserva()
ReservaSaveNumber(p, data) ==
    /\ pc[p] = "idle"
    /\ GivenCount + Cardinality({q \in Creators : pc[q] = "generated"}) < MaxCreated
    /\ "tipo_operacion" \in DOMAIN data
    /\ validate(data, NoReserva)
    /\ mem' = [mem EXCEPT ![p] = _generar_numero_reserva(reservas, year)]
    /\ pc' = [pc EXCEPT ![p] = "generated"]
    /\ UNCHANGED <<dbVars, now, last, trace, mlRefresh, appVars>>

\* super().save(): the INSERT, refused by the unique constraint when a stored
\* row has the number
ReservaSaveInsert(p, data) ==
    /\ pc[p] = "generated"
    /\ FreeSlots # {}
    /\ LET row == [Assigned(NoReserva, data) EXCEPT
                     !.exists = TRUE, !.numero_reserva = mem[p], !.estado = "pending"]
       IN  IF \E r \in DOMAIN reservas : reservas[r].exists /\ reservas[r].numero_reserva = mem[p]
           THEN /\ last' = Answer("reserva_create", 0, "integrity_error", <<>>, 0)
                /\ UNCHANGED <<reservas, trace>>
           ELSE /\ reservas' = [reservas EXCEPT ![NextPk] = row]
                /\ trace' = [trace EXCEPT ![p] = Append(@, mem[p])]
                /\ last' = Answer("reserva_create", NextPk, "ok", <<>>, 0)
    /\ pc' = [pc EXCEPT ![p] = "idle"]
    /\ UNCHANGED <<dbVars, now, mem, mlRefresh, session, fichas, imagenes, year>>

\* DELETE /api/reservas/{r}/ (ModelViewSet.destroy): the row is removed
ReservaDestroy(r) ==
    /\ r \in DOMAIN reservas /\ reservas[r].exists
    /\ reservas' = [reservas EXCEPT ![r] = NoReserva]
    /\ last' = Answer("reserva_destroy", r, "ok", <<>>, 0)
    /\ UNCHANGED <<dbVars, now, clientVars, session, fichas, imagenes, year>>

\* ------------------------------------------------------------ specification
Idle == Answer("none", 0, "none", <<>>, 0)

\* no OAuth flow started, no reservations, no images
NoSession == [ml_oauth_state |-> 0, ml_oauth_user_id |-> 0]
NewFicha == [vendido |-> FALSE, reservado |-> FALSE, mostrar_en_web |-> TRUE, updated_at |-> 0]
AppIdle ==
    /\ session = NoSession
    /\ reservas = <<>>
    /\ fichas = [v \in DOMAIN vehiculos |-> NewFicha]
    /\ imagenes = <<>>
    /\ year = FirstYear

\* the database right after installation: staff accounts and vehicles are
\* loaded, no marketplace account is connected
InitWith(staff, stock) ==
    /\ credential = [u \in staff |-> NoCred]
    /\ vehiculos = [v \in stock |-> NewVehiculo]
    /\ publications = [i \in Items |-> NoPub]
    /\ now = 0
    /\ last = Idle
    /\ pc = [p \in Clients |-> "idle"]
    /\ mem = [p \in Clients |-> NoCred]
    /\ trace = [p \in Clients |-> NewTrace]
    /\ mlRefresh = 0
    /\ AppIdle

\* one staff account working on the stock and its marketplace publications;
\* tokens are refreshed when the marketplace answers 401
Init == InitWith({1}, Vehicles)

Next ==
    \/ \E su \in 0..NumUsers, r \in CodeResponses : MLAuthCallback(su, r)
    \/ MLDisconnect
    \/ MLConnectionStatus
    \/ \E force \in BOOLEAN : RefreshMlTokenCommand(force)
    \/ MLQuota
    \/ \E n \in 0..NumItems : MLSync(n)
    \/ \E v \in Vehicles, incl \in {FALSE} : publicar_ml(v, incl)
    \/ \E i \in Items, st \in Statuses : MLPublicationStatus(i, st)
    \/ \E v \in Vehicles, st \in Statuses, incl \in {FALSE} : ml_status(v, st, incl)
    \/ \E v \in Vehicles, incl \in {FALSE} : cerrar_ml(v, incl)
    \/ \E i \in Items, v \in Vehicles : link(i, v)
    \/ \E i \in Items : unlink(i)
    \/ \E i \in Items : destroy(i)

Spec == Init /\ [][Next]_vars

\* several staff accounts, only the account handlers
InitCred == InitWith(Users, {})

NextCred ==
    \/ \E su \in 0..NumUsers, r \in CodeResponses : MLAuthCallback(su, r)
    \/ MLDisconnect
    \/ MLConnectionStatus
    \/ \E force \in BOOLEAN : RefreshMlTokenCommand(force)
    \/ MLQuota
    \/ Tick

SpecCred == InitCred /\ [][NextCred]_vars

\* overlapping requests on a connected account: the state after an OAuth
\* callback at time 0 that was given a token good for 60 minutes
InitClient ==
    /\ credential = [u \in {1} |-> Cred(1, 1, 60, TRUE)]
    /\ vehiculos = [v \in {} |-> NewVehiculo]
    /\ publications = [i \in Items |-> NoPub]
    /\ now = 0
    /\ last = Idle
    /\ pc = [p \in Clients |-> "idle"]
    /\ mem = [p \in Clients |-> NoCred]
    /\ trace = [p \in Clients |-> NewTrace]
    /\ mlRefresh = 1
    /\ AppIdle

NextClient ==
    \/ \E p \in Clients : Begin(p)
    \/ \E p \in Clients, r \in TokenOk(Tokens) \cup TokenFail \cup {NetworkError} : Exchange(p, r)
    \/ \E p \in Clients : Apply(p)
    \/ \E p \in Clients : Request(p)
    \/ \E p \in Clients, r \in ApiResponses : Send(p, r)
    \/ \E p \in Clients, r \in ApiResponses : Resend(p, r)
    \/ Tick

SpecClient == InitClient /\ [][NextClient]_vars

\* a connected account with several active listings, synchronised item by
\* item; between two runs staff unlink mirrors, delete and restore vehicles
InitSync ==
    /\ credential = [u \in {1} |-> Cred(1, 1, 60, TRUE)]
    /\ vehiculos = [v \in Vehicles |-> NewVehiculo]
    /\ publications = [i \in ListedItems |-> NoPub]
    /\ now = 0
    /\ last = Idle
    /\ pc = [p \in Clients |-> "idle"]
    /\ mem = [p \in Clients |-> NoCred]
    /\ trace = [p \in Clients |-> NewTrace]
    /\ mlRefresh = 1
    /\ AppIdle

NextSync ==
    \/ \E S \in SUBSET ListedItems : SyncBegin(S)
    \/ \E d \in [status : {"active"}, plate : Plates], stage \in Stages \cup {"none"} :
         SyncStep(d, stage)
    \/ SyncEnd
    \/ \E i \in ListedItems : ~Running /\ unlink(i)
    \/ \E v \in Vehicles : ~Running /\ perform_destroy(v, FALSE)
    \/ \E v \in Vehicles : ~Running /\ restaurar(v)

SpecSync == InitSync /\ [][NextSync]_vars

\* a call of get_all_user_items on an account with a listing of T items
InitPages ==
    /\ credential = [u \in {1} |-> Cred(1, 1, 60, TRUE)]
    /\ vehiculos = <<>>
    /\ publications = [i \in Items |-> NoPub]
    /\ now = 0
    /\ \E T \in 0..MaxTotal :
         last = Answer("pages", PageRun(T, 0, <<>>, <<>>), "running", <<>>, 0)
    /\ pc = [p \in Clients |-> "idle"]
    /\ mem = [p \in Clients |-> NoCred]
    /\ trace = [p \in Clients |-> NewTrace]
    /\ mlRefresh = 1
    /\ AppIdle

NextPages == get_all_user_items

\* the loop is sequential code: it takes its next turn whenever it has one
SpecPages == InitPages /\ [][NextPages]_vars /\ WF_vars(NextPages)

\* the OAuth flow: several staff accounts, the auth-url step and the callback
InitOAuth == InitWith(Users, {})

NextOAuth ==
    \/ \E u \in Users, st \in 1..MaxState : MLAuthURL(u, st)
    \/ \E st \in 0..MaxState, ws \in BOOLEAN, r \in CodeResponses : MLAuthCallbackGet(st, ws, r)
    \/ MLDisconnect

SpecOAuth == InitOAuth /\ [][NextOAuth]_vars

\* the reservation endpoints on an empty table, one vehicle in stock
InitReservas ==
    /\ credential = [u \in {1} |-> NoCred]
    /\ vehiculos = [v \in Vehicles |-> NewVehiculo]
    /\ publications = [i \in Items |-> NoPub]
    /\ now = 0
    /\ last = Idle
    /\ pc = [p \in Clients |-> "idle"]
    /\ mem = [p \in Clients |-> NoCred]
    /\ trace = [p \in Clients |-> NewTrace]
    /\ mlRefresh = 0
    /\ session = NoSession
    /\ reservas = [r \in 1..NumReservas |-> NoReserva]
    /\ fichas = [v \in DOMAIN vehiculos |-> NewFicha]
    /\ imagenes = <<>>
    /\ year = FirstYear

NextReservas ==
    \/ \E data \in Payloads : ReservaCreate(data)
    \/ \E r \in 1..NumReservas, data \in Payloads : ReservaUpdate(r, data, FALSE)
    \/ \E r \in 1..NumReservas, data \in Payloads : ReservaUpdate(r, data, TRUE)

SpecReservas == InitReservas /\ [][NextReservas]_vars

\* sequence numbers of reservations of the first year that are still stored
\* after the others were deleted (DELETE /api/reservas/{id}/)
SeedNumbers == {1, 2, 9, 10, 99998, 99999, 100000}

\* the k-th smallest element of a set of numbers
RECURSIVE Nth(_, _)
Nth(S, k) ==
    LET m == CHOOSE x \in S : \A z \in S : x <= z IN
    IF k = 1 THEN m ELSE Nth(S \ {m}, k - 1)

\* a table that holds reservations with the sequence numbers S
Remaining(S) ==
    [r \in 1..NumSlots |->
       IF r <= Cardinality(S)
       THEN [NoReserva EXCEPT !.exists = TRUE, !.tipo_operacion = "external",
                              !.estado = "pending",
                              !.numero_reserva = Numero(FirstYear, Format05d(Nth(S, r)))]
       ELSE NoReserva]

InitNumeros ==
    /\ credential = [u \in {1} |-> NoCred]
    /\ vehiculos = [v \in Vehicles |-> NewVehiculo]
    /\ publications = [i \in Items |-> NoPub]
    /\ now = 0
    /\ last = Idle
    /\ pc = [p \in Clients |-> "idle"]
    /\ mem = [p \in Clients |-> NoCred]
    /\ trace = [p \in Clients |-> NewTrace]
    /\ mlRefresh = 0
    /\ session = NoSession
    /\ \E S \in SUBSET SeedNumbers : Cardinality(S) < NumSlots /\ reservas = Remaining(S)
    /\ fichas = [v \in DOMAIN vehiculos |-> NewFicha]
    /\ imagenes = <<>>
    /\ year = FirstYear

NextNumeros ==
    \/ ReservaCreate([tipo_operacion |-> "external"])
    \/ NewYear

SpecNumeros == InitNumeros /\ [][NextNumeros]_vars

\* the stock and the reservations: sales, deliveries, soft delete and restore
InitVehiculos ==
    /\ credential = [u \in {1} |-> NoCred]
    /\ vehiculos = [v \in 1..NumStock |-> NewVehiculo]
    /\ publications = [i \in Items |-> NoPub]
    /\ now = 0
    /\ last = Idle
    /\ pc = [p \in Clients |-> "idle"]
    /\ mem = [p \in Clients |-> NoCred]
    /\ trace = [p \in Clients |-> NewTrace]
    /\ mlRefresh = 0
    /\ session = NoSession
    /\ reservas = [r \in {1} |-> NoReserva]
    /\ fichas = [v \in DOMAIN vehiculos |-> NewFicha]
    /\ imagenes = <<>>
    /\ year = FirstYear

NextVehiculos ==
    \/ \E v \in 1..NumStock, inc \in BOOLEAN : perform_destroy(v, inc)
    \/ \E v \in 1..NumStock : restaurar(v)
    \/ \E v \in 1..NumStock, inc \in BOOLEAN : marcar_vendido(v, inc)
    \/ \E v \in 1..NumStock, inc \in BOOLEAN : marcar_reservado(v, inc)
    \/ \E v \in 0..NumStock :
         ReservaCreate(IF v = 0 THEN [tipo_operacion |-> "external"]
                       ELSE [tipo_operacion |-> "used", vehiculo |-> v, dominio |-> "AB123CD"])
    \/ \E r \in {1} : marcar_entregado(r)
    \/ \E r \in {1}, perder_sena \in BOOLEAN : anular(r, perder_sena)
    \/ Tick

SpecVehiculos == InitVehiculos /\ [][NextVehiculos]_vars

\* the image endpoints of two vehicles without images
InitImagenes ==
    /\ credential = [u \in {1} |-> NoCred]
    /\ vehiculos = [v \in 1..NumStock |-> NewVehiculo]
    /\ publications = [i \in Items |-> NoPub]
    /\ now = 0
    /\ last = Idle
    /\ pc = [p \in Clients |-> "idle"]
    /\ mem = [p \in Clients |-> NoCred]
    /\ trace = [p \in Clients |-> NewTrace]
    /\ mlRefresh = 0
    /\ session = NoSession
    /\ reservas = <<>>
    /\ fichas = [v \in DOMAIN vehiculos |-> NewFicha]
    /\ imagenes = [i \in 1..NumImages |-> NoImagen]
    /\ year = FirstYear

NextImagenes ==
    \/ \E v \in 1..NumStock, o \in 0..MaxOrden, p \in BOOLEAN : imagenes_upload(v, o, p)
    \/ \E v \in 1..NumStock, i \in 1..NumImages : eliminar_imagen(v, i)
    \/ \E v \in 1..NumStock, S \in SUBSET (1..NumImages) :
         \E orden_data \in [S -> 0..MaxOrden] : reordenar_imagenes(v, orden_data)
    \/ \E v \in 1..NumStock, i \in 1..NumImages : marcar_principal(v, i)

SpecImagenes == InitImagenes /\ [][NextImagenes]_vars

\* a vehicle that has 13 to 15 images, and two clients uploading to it
InitUploads ==
    /\ credential = [u \in {1} |-> NoCred]
    /\ vehiculos = [v \in {1} |-> NewVehiculo]
    /\ publications = [i \in Items |-> NoPub]
    /\ now = 0
    /\ last = Idle
    /\ pc = [p \in Uploaders |-> "idle"]
    /\ mem = [p \in Uploaders |-> NoCred]
    /\ trace = [p \in Uploaders |-> NewTrace]
    /\ mlRefresh = 0
    /\ session = NoSession
    /\ reservas = <<>>
    /\ fichas = [v \in DOMAIN vehiculos |-> NewFicha]
    /\ \E k \in (MaxImagenes - 2)..MaxImagenes :
         imagenes = [i \in 1..(MaxImagenes + 2) |->
                       IF i <= k THEN [exists |-> TRUE, vehiculo |-> 1, orden |-> 0,
                                       es_principal |-> FALSE]
                       ELSE NoImagen]
    /\ year = FirstYear

NextUploads ==
    \/ \E p \in Uploaders : UploadCheck(p, 1)
    \/ \E p \in Uploaders, o \in 0..MaxOrden, es_principal \in BOOLEAN :
         UploadSave(p, 1, o, es_principal)

SpecUploads == InitUploads /\ [][NextUploads]_vars

\* a credential with any expiry, read at any time
InitExpiry ==
    /\ \E exp \in 0..MaxExpiry : credential = [u \in {1} |-> Cred(1, 1, exp, TRUE)]
    /\ vehiculos = <<>>
    /\ publications = [i \in Items |-> NoPub]
    /\ now = 0
    /\ last = Idle
    /\ pc = [p \in Clients |-> "idle"]
    /\ mem = [p \in Clients |-> NoCred]
    /\ trace = [p \in Clients |-> NewTrace]
    /\ mlRefresh = 1
    /\ AppIdle

NextExpiry ==
    \/ Minute
    \/ TokenCheck(1)

SpecExpiry == InitExpiry /\ [][NextExpiry]_vars

\* one stored reservation with any costs and no payment yet
InitPagos ==
    /\ credential = [u \in {1} |-> NoCred]
    /\ vehiculos = <<>>
    /\ publications = [i \in Items |-> NoPub]
    /\ now = 0
    /\ last = Idle
    /\ pc = [p \in Clients |-> "idle"]
    /\ mem = [p \in Clients |-> NoCred]
    /\ trace = [p \in Clients |-> NewTrace]
    /\ mlRefresh = 0
    /\ session = NoSession
    /\ \E c \in [CostFields -> {0, MaxMonto}] :
         reservas = [r \in {1} |-> ReservaConCostos(c, [k \in 1..NumPagos |-> 0])]
    /\ fichas = <<>>
    /\ imagenes = <<>>
    /\ year = FirstYear

NextPagos ==
    \/ \E monto \in 1..MaxMonto : agregar_forma_pago(1, monto)
    \/ \E fp_id \in 1..NumPagos : eliminar_forma_pago(1, fp_id)

SpecPagos == InitPagos /\ [][NextPagos]_vars

\* one fetched item: any title without attributes, or a few titles with any
\* attributes
InitPatente ==
    /\ credential = [u \in {1} |-> NoCred]
    /\ vehiculos = <<>>
    /\ publications = [i \in Items |-> NoPub]
    /\ now = 0
    /\ \E item \in ([title : Titles, attributes : {<<>>}]
                      \cup [title : AttrTitles, attributes : AttrLists]) :
         last = Answer("get_item", item, <<>>, <<>>, 0)
    /\ pc = [p \in Clients |-> "idle"]
    /\ mem = [p \in Clients |-> NoCred]
    /\ trace = [p \in Clients |-> NewTrace]
    /\ mlRefresh = 0
    /\ AppIdle

NextPatente == ExtractPatente

SpecPatente == InitPatente /\ [][NextPatente]_vars

\* a connected account with up to two listed items and the stock: sync,
\* manual link, unlink and publish
InitLinks ==
    /\ credential = [u \in {1} |-> Cred(1, 1, 60, TRUE)]
    /\ vehiculos = [v \in Vehicles |-> NewVehiculo]
    /\ publications = [i \in ListedItems |-> NoPub]
    /\ now = 0
    /\ last = Idle
    /\ pc = [p \in Clients |-> "idle"]
    /\ mem = [p \in Clients |-> NoCred]
    /\ trace = [p \in Clients |-> NewTrace]
    /\ mlRefresh = 1
    /\ AppIdle

NextLinks ==
    \/ \E S \in SUBSET ListedItems : SyncBegin(S)
    \/ \E d \in [status : {"active"}, plate : Plates] : SyncStep(d, "none")
    \/ SyncEnd
    \/ \E v \in Vehicles : ~Running /\ publicar_ml(v, FALSE)
    \/ \E i \in ListedItems, v \in Vehicles : ~Running /\ link(i, v)
    \/ \E i \in ListedItems : ~Running /\ unlink(i)

SpecLinks == InitLinks /\ [][NextLinks]_vars

\* two clients creating reservations while rows are deleted
InitCreates ==
    /\ credential = [u \in {1} |-> NoCred]
    /\ vehiculos = [v \in Vehicles |-> NewVehiculo]
    /\ publications = [i \in Items |-> NoPub]
    /\ now = 0
    /\ last = Idle
    /\ pc = [p \in Creators |-> "idle"]
    /\ mem = [p \in Creators |-> NoNumero]
    /\ trace = [p \in Creators |-> <<>>]
    /\ mlRefresh = 0
    /\ session = NoSession
    /\ reservas = [r \in 1..NumReservas |-> NoReserva]
    /\ fichas = [v \in DOMAIN vehiculos |-> NewFicha]
    /\ imagenes = <<>>
    /\ year = FirstYear

NextCreates ==
    \/ \E p \in Creators : ReservaSaveNumber(p, [tipo_operacion |-> "external"])
    \/ \E p \in Creators : ReservaSaveInsert(p, [tipo_operacion |-> "external"])
    \/ \E r \in 1..NumReservas : ReservaDestroy(r)

SpecCreates == InitCreates /\ [][NextCreates]_vars

\* ------------------------------------------------------------------ properties
\* C1: whatever callbacks, disconnects and token refreshes have run, at most
\* one MLCredential row is active, and right after a successful OAuth callback
\* for a user that user's credential is the only active one.
C1_SingleActiveCredential ==
    /\ Cardinality(ActiveUsers) <= 1
    /\ (last.op = "callback" /\ last.result = "connected") => ActiveUsers = {last.on}

\* a callback connected a user while another user's credential was stored
C1_Witness ==
    /\ last.op = "callback" /\ last.result = "connected"
    /\ ActiveUsers = {last.on}
    /\ \E u \in DOMAIN credential \ {last.on} :
         credential[u].exists /\ ~credential[u].is_active

\* a refresh exchange that failed, seen on the step of _refresh_token that
\* handles the answer
FailedRefreshStep(p) ==
    /\ pc[p] = "apply"
    /\ pc'[p] # "apply"
    /\ trace[p].pending.kind = "network" \/ trace[p].pending.status # 200

\* the tokens and the expiry of a credential
Stored(c) == <<c.access_token, c.refresh_token, c.expires_at>>

\* the MLSyncLog row a failed _refresh_token adds
FailureLogged(p) ==
    /\ Len(trace'[p].log) > Len(trace[p].log)
    /\ trace'[p].log[Len(trace[p].log) + 1] = LogEntry("refresh_token", FALSE)

\* C2 as stated: a failed exchange deactivates the credential exactly when the
\* answer is HTTP 400 carrying invalid_grant or invalid_token; after any other
\* failure is_active, the tokens and the expiry are unchanged; a failure row is
\* logged.
C2_AsStated ==
    [][\A p \in Clients : FailedRefreshStep(p) =>
         LET r == trace[p].pending
             coded400 == r.kind = "http" /\ r.status = 400
                         /\ r.error \in {"invalid_grant", "invalid_token"}
         IN /\ mem'[p].is_active <=> (mem[p].is_active /\ ~coded400)
            /\ ~coded400 => mem'[p] = mem[p] /\ credential' = credential
            /\ FailureLogged(p)]_vars

\* C2, amended: a failed exchange deactivates the credential exactly when the
\* answer is HTTP 400 (with any error code or none) or carries invalid_grant or
\* invalid_token (with any status); after any other failure (network error,
\* other status without those codes) is_active, the tokens and the expiry are
\* unchanged in memory and in the database; in every failure the tokens and
\* the expiry held by the client are unchanged and a failure row is logged.
C2_DeactivatesOn400OrCode ==
    [][\A p \in Clients : FailedRefreshStep(p) =>
         LET r == trace[p].pending
             invalid == r.kind = "http"
                        /\ (r.status = 400 \/ r.error \in {"invalid_grant", "invalid_token"})
         IN /\ mem'[p].is_active <=> (mem[p].is_active /\ ~invalid)
            /\ ~invalid => mem'[p] = mem[p] /\ credential' = credential
            /\ Stored(mem'[p]) = Stored(mem[p])
            /\ FailureLogged(p)]_vars

\* a refresh answered HTTP 400 without an error code left the credential
\* inactive in the database
C2_Witness ==
    \E p \in Clients :
      /\ trace[p].resp.kind = "http"
      /\ trace[p].resp.status = 400
      /\ trace[p].resp.error = ""
      /\ ~mem[p].is_active
      /\ \A u \in DOMAIN credential : ~credential[u].is_active

\* C3: one _request call sends at most two HTTP requests to the endpoint; a
\* second one is sent only after a 401 answer followed by one successful
\* refresh, and after it the call has ended (returned or raised); a 401 starts
\* at most one refresh per call, and when that refresh fails the call raises
\* without a second request.
C3_OneRefreshOneRetry ==
    \A p \in Clients :
      /\ trace[p].sent <= 2
      /\ trace[p].on401 <= 1
      /\ trace[p].sent = 2 => trace[p].on401 = 1 /\ pc[p] \in {"done", "raised"}
      /\ pc[p] = "resend" => trace[p].sent = 1 /\ trace[p].on401 = 1
      /\ (trace[p].on401 = 1 /\ trace[p].sent = 1 /\ pc[p] \in {"done", "raised"})
           => pc[p] = "raised" /\ trace[p].resp.kind # "none"
                /\ (trace[p].resp.kind = "network" \/ trace[p].resp.status # 200)

\* a call got 401, refreshed, retried, and raised on the second error answer
C3_Witness ==
    \E p \in Clients :
      pc[p] = "raised" /\ trace[p].sent = 2 /\ trace[p].on401 = 1

\* C4: a credential that is inactive becomes active again only in a step of
\* a completed OAuth callback for its user; no sync, publish, status change,
\* quota, connection-status or cron refresh step does it.
C4_ReactivatedOnlyByCallback ==
    [][\A u \in DOMAIN credential :
         (credential[u].exists /\ ~credential[u].is_active /\ credential'[u].is_active)
           => (last'.op = "callback" /\ last'.result = "connected" /\ last'.on = u)]_vars

\* a refresh made during a marketplace operation left the credential inactive
C4_Witness ==
    /\ last.op \in {"sync", "publish", "set_status", "quota", "status", "cron"}
    /\ \E u \in DOMAIN credential : credential[u].exists /\ ~credential[u].is_active

C6_RepublishRejected ==
    [][\A v \in DOMAIN vehiculos :
         (vehiculos[v].ml_item_id # 0 /\ last'.op = "publish" /\ last'.on = v)
           => /\ last'.result # "ok"
              /\ last'.calls = 0
              /\ publications' = publications
              /\ vehiculos' = vehiculos]_vars

\* a publish was rejected for a vehicle that keeps the id of an item whose
\* mirror row has been deleted
C6_Witness ==
    /\ last.op = "publish" /\ last.result = "rejected"
    /\ vehiculos[last.on].ml_item_id # 0
    /\ ~publications[vehiculos[last.on].ml_item_id].exists

\* C7: when the create call of a publish fails, no MLPublication row is
\* created, the vehicle changes in ml_error only, which is set, exactly one
\* CREATE failure row is logged, the error reaches the caller and create_item
\* was called once.
C7_FailedPublish ==
    [][(last'.op = "publish" /\ last'.result = "ml_error") =>
         /\ publications' = publications
         /\ vehiculos' = [vehiculos EXCEPT ![last'.on].ml_error = "error"]
         /\ last'.log = <<LogEntry("create", FALSE)>>
         /\ last'.calls = 1]_vars

\* a publish failed on a vehicle that was not published
C7_Witness ==
    /\ last.op = "publish" /\ last.result = "ml_error"
    /\ vehiculos[last.on].ml_error = "error"
    /\ vehiculos[last.on].ml_item_id = 0
    /\ ~vehiculos[last.on].publicado_en_ml

\* C8 as stated: once a mirror's ml_status is closed, no status action
\* (publications/{id}/status, vehiculos/{id}/ml-status, vehiculos/{id}/cerrar-ml)
\* moves it to another status.
C8_ClosedIsTerminal ==
    [][\A i \in Items :
         (publications[i].exists /\ publications[i].ml_status = "closed"
            /\ last'.op = "set_status")
           => publications'[i].ml_status = "closed"]_vars

\* the vehicle's marketplace columns are cleared
Cleared(veh) ==
    /\ ~veh.publicado_en_ml
    /\ veh.ml_item_id = 0
    /\ veh.ml_estado = ""
    /\ veh.ml_permalink = 0

\* a status action closed a mirror
ClosedStep == last'.op = "set_status" /\ last'.result = "ok"
              /\ last'.log = <<LogEntry("close", TRUE)>>

\* C9 as stated: after a linked mirror is closed, and after it is unlinked,
\* the vehicle has publicado_en_ml false, no ml_item_id, and empty ml_estado
\* and ml_permalink.
C9_AsStated ==
    [][/\ (ClosedStep /\ publications[last'.on].vehiculo # 0)
            => Cleared(vehiculos'[publications[last'.on].vehiculo])
       /\ last'.op = "unlink" => Cleared(vehiculos'[last'.on])]_vars

\* C9, amended: after a linked mirror is closed the vehicle has
\* publicado_en_ml false and ml_estado closed, and keeps its ml_item_id and
\* ml_permalink; after the mirror is unlinked all four columns are cleared.
C9_CloseKeepsItemId ==
    [][/\ (ClosedStep /\ publications[last'.on].vehiculo # 0)
            => LET v == publications[last'.on].vehiculo IN
               /\ ~vehiculos'[v].publicado_en_ml
               /\ vehiculos'[v].ml_estado = "closed"
               /\ vehiculos'[v].ml_item_id = vehiculos[v].ml_item_id
               /\ vehiculos'[v].ml_permalink = vehiculos[v].ml_permalink
       /\ last'.op = "unlink" => Cleared(vehiculos'[last'.on])]_vars

\* a published vehicle's mirror was closed: the vehicle still carries the item id
C9_Witness ==
    /\ last.op = "set_status" /\ last.result = "ok"
    /\ last.log = <<LogEntry("close", TRUE)>>
    /\ publications[last.on].vehiculo # 0
    /\ LET veh == vehiculos[publications[last.on].vehiculo] IN
         veh.ml_item_id = last.on /\ ~veh.publicado_en_ml /\ veh.ml_estado = "closed"

\* C10 as stated: a sync or quota request that ended with MLAPIError has
\* written an MLSyncLog row with success = false.
C10_FailureIsLogged ==
    \A p \in Clients :
      pc[p] = "raised" => \E k \in 1..Len(trace[p].log) : ~trace[p].log[k].success

\* a sync run has completed and answered
SyncDone == last.op = "sync" /\ last.result = "ok"

\* the items of the latest run whose processing raised at the given stage
FailedAt(stage) == {i \in last.on.ids : <<i, stage>> \in last.on.failed}

\* C11 as stated: when the processing of items raises, the run still
\* processes every other item, completes and records one IMPORT row with
\* success = true, and no failed item is counted in imported or updated.
C11_AsStated ==
    SyncDone =>
      /\ last.log = <<LogEntry("import", TRUE)>>
      /\ last.on.pending = {}
      /\ \A i \in last.on.ids \ (FailedAt("upsert") \cup FailedAt("link")) :
           publications[i].exists
      /\ last.on.imported + last.on.updated
           = Cardinality(last.on.ids \ (FailedAt("upsert") \cup FailedAt("link")))

\* C11, amended: when the processing of items raises, the run still processes
\* every other item, completes and records one IMPORT row with success = true;
\* an item that raised inside _sync_single_item is counted in neither imported
\* nor updated, while an item that raised in the linking step, after its row
\* was written, is counted once in imported or updated and is left unlinked.
C11_FailureIsolated ==
    SyncDone =>
      /\ last.log = <<LogEntry("import", TRUE)>>
      /\ last.on.pending = {}
      /\ \A i \in last.on.ids \ FailedAt("upsert") : publications[i].exists
      /\ last.on.imported + last.on.updated
           = Cardinality(last.on.ids \ FailedAt("upsert"))
      /\ last.on.linked <= Cardinality(last.on.ids \ (FailedAt("upsert") \cup FailedAt("link")))

\* a run of two items completed: the first raised in _sync_single_item and has
\* no row, the second was imported
C11_Witness ==
    /\ SyncDone
    /\ last.on.ids = {1, 2}
    /\ FailedAt("upsert") = {1}
    /\ ~publications[1].exists
    /\ publications[2].exists
    /\ last.on.imported = 1 /\ last.on.updated = 0

\* C13: rows are keyed by ml_item_id.  After a completed run the table holds
\* the rows it had before plus one row for every listed item whose upsert did
\* not raise, imported counts the listed items that had no row and updated
\* those that had one; so a run over a listing whose items all have rows
\* reports imported = 0, updated = number of items, and adds no rows.
C13_UpsertByItemId ==
    SyncDone =>
      LET seen == last.on.ids \ FailedAt("upsert") IN
      /\ Rows = last.on.had \cup seen
      /\ last.on.imported = Cardinality(seen \ last.on.had)
      /\ last.on.updated = Cardinality(seen \cap last.on.had)
      /\ (last.on.ids \subseteq last.on.had /\ FailedAt("upsert") = {}) =>
           /\ last.on.imported = 0
           /\ last.on.updated = Cardinality(last.on.ids)
           /\ Rows = last.on.had

\* a completed run over two items that both had a row from an earlier run
C13_Witness ==
    /\ SyncDone
    /\ last.on.ids = {1, 2}
    /\ last.on.had = {1, 2}
    /\ last.on.failed = {}
    /\ last.on.imported = 0 /\ last.on.updated = 2

\* the vehicle a mirror row points to, 0 for none or for no row
LinkOf(row) == IF row.exists THEN row.vehiculo ELSE 0

PagesDone == last.op = "pages" /\ last.result = "ok"

\* what a finished get_all_user_items call has requested and returns
PagesCollected ==
    PagesDone =>
      LET r == last.on
          k == Len(r.offsets) IN
      /\ k >= 1
      /\ k = last.calls
      /\ k = PageRequests(r.total)
      /\ \A n \in 1..k : r.offsets[n] = PageLimit * (n - 1)
      /\ \A n \in 1..(k - 1) : r.offsets[n] + PageLimit < r.total
      /\ r.offsets[k] + PageLimit >= r.total
      /\ r.all_items = [n \in 1..r.total |-> n]

\* C12: for every constant total T >= 0, get_all_user_items terminates, having
\* requested the offsets 0, 50, 100, ... up to and including the first one
\* with offset + 50 >= T, and returns the ids of those pages in order, which
\* are all T ids of the listing.
C12_PagesCollectAll == []PagesCollected /\ <>PagesDone

\* a finished call over a listing of exactly two full pages and one more id
C12_Witness ==
    /\ PagesDone
    /\ last.on.total = 2 * PageLimit + 1
    /\ last.on.offsets = <<0, PageLimit, 2 * PageLimit>>
    /\ Len(last.on.all_items) = 2 * PageLimit + 1

\* request.session.get('ml_oauth_state') as the callback's request sees it
SavedState(withSession) == IF withSession THEN session.ml_oauth_state ELSE 0

\* C15: a callback whose state parameter differs from the state token the
\* auth-url step stored in the session exchanges no code and creates, updates
\* or activates no credential.
C15_StateValidated ==
    [][\A st \in 0..MaxState, ws \in BOOLEAN, r \in CodeResponses :
          (st # SavedState(ws) /\ MLAuthCallbackGet(st, ws, r)) =>
             (credential' = credential /\ last'.result # "connected")]_vars

\* C16: every stored reservation of type used has a vehicle and a non-empty
\* dominio, and every stored reservation of type new has a vehicle and a
\* non-empty numero_chasis.
C16_TypeRequirements ==
    \A r \in DOMAIN reservas :
       reservas[r].exists =>
         /\ reservas[r].tipo_operacion = "used" =>
              (reservas[r].vehiculo # 0 /\ reservas[r].dominio # "")
         /\ reservas[r].tipo_operacion = "new" =>
              (reservas[r].vehiculo # 0 /\ reservas[r].numero_chasis # "")

\* the highest sequence number, as a number, among the year's reservations
HighestOfYear(rows, y) ==
    LET nums == {ToInt(rows[r].numero_reserva.digits) : r \in OfYear(rows, y)} IN
    CHOOSE n \in nums : \A m \in nums : m <= n

\* C17: a newly saved reservation gets RES-<current year>-<n padded to 5
\* digits>, n being 1 when the year has no reservation and otherwise one more
\* than the numerically highest sequence number of the year's reservations.
C17_NextNumber ==
    [][(last'.op = "reserva_create" /\ last'.result = "ok" /\ reservas' # reservas) =>
         reservas'[last'.on].numero_reserva =
            Numero(year, Format05d(IF OfYear(reservas, year) = {} THEN 1
                                   ELSE HighestOfYear(reservas, year) + 1))]_vars

Sold(ficha) == ficha.vendido /\ ~ficha.reservado /\ ~ficha.mostrar_en_web

\* C18: after marcar-vendido the vehicle has vendido = true, reservado = false
\* and mostrar_en_web = false; after marcar-entregado the reservation has
\* estado = delivered and entregado = true, and its vehicle, if it has one,
\* has the same three values.
C18_SoldFlags ==
    /\ last.op = "marcar_vendido" => Sold(fichas[last.on])
    /\ last.op = "marcar_entregado" =>
         /\ reservas[last.on].estado = "delivered"
         /\ reservas[last.on].entregado
         /\ reservas[last.on].vehiculo # 0 => Sold(fichas[reservas[last.on].vehiculo])

\* a reservation of the second vehicle was delivered after the vehicle had
\* been soft-deleted
C18_Witness ==
    /\ last.op = "marcar_entregado"
    /\ reservas[last.on].vehiculo = 2
    /\ vehiculos[2].deleted
    /\ Sold(fichas[2])
    /\ ~Sold(fichas[1])

\* the latest step was the handler op acting on vehicle v (the clock does not
\* advance inside a handler)
VehicleStep(op, v) == last'.op = op /\ last'.on = v /\ now' = now

\* the columns of a vehicle other than deleted_at and updated_at are unchanged
OtherColumnsKept(v) ==
    /\ [vehiculos'[v] EXCEPT !.deleted = FALSE] = [vehiculos[v] EXCEPT !.deleted = FALSE]
    /\ [fichas'[v] EXCEPT !.updated_at = 0] = [fichas[v] EXCEPT !.updated_at = 0]

\* C19 as stated: a soft delete hides the vehicle from default queries and
\* keeps the row; a restore makes deleted_at null and the vehicle visible to
\* default queries again, and every other column has its value of before the
\* soft delete.
C19_AsStated ==
    [][\A v \in DOMAIN vehiculos :
         /\ VehicleStep("delete_vehicle", v) =>
              /\ ~get_object(v, FALSE)' /\ get_object(v, TRUE)'
              /\ OtherColumnsKept(v) /\ fichas'[v] = fichas[v]
         /\ VehicleStep("restaurar", v) =>
              /\ ~vehiculos'[v].deleted /\ get_object(v, FALSE)'
              /\ OtherColumnsKept(v) /\ fichas'[v] = fichas[v]]_vars

\* C19, amended: a soft delete hides the vehicle from default queries and
\* keeps the row; a restore makes deleted_at null and the vehicle visible to
\* default queries again; both leave every other column except updated_at as
\* it was, and both set updated_at to the time of the request.
C19_SoftDeleteRestore ==
    [][\A v \in DOMAIN vehiculos :
         /\ VehicleStep("delete_vehicle", v) =>
              /\ ~get_object(v, FALSE)' /\ get_object(v, TRUE)'
              /\ OtherColumnsKept(v) /\ fichas'[v].updated_at = now
         /\ VehicleStep("restaurar", v) =>
              /\ ~vehiculos'[v].deleted /\ get_object(v, FALSE)'
              /\ OtherColumnsKept(v) /\ fichas'[v].updated_at = now]_vars

\* a reserved vehicle was soft-deleted and later restored: it is visible and
\* still reserved, with the updated_at of the restore
C19_Witness ==
    /\ last.op = "restaurar"
    /\ get_object(last.on, FALSE)
    /\ fichas[last.on].reservado
    /\ fichas[last.on].updated_at = MaxTime
    /\ now = MaxTime

Principales(v) == {i \in ImagenesDe(v) : imagenes[i].es_principal}

\* C20: each vehicle has at most one image with es_principal = true.
C20_OnePrincipal == \A v \in DOMAIN vehiculos : Cardinality(Principales(v)) <= 1

\* a vehicle with two images of which the second, uploaded as primary after
\* a primary one, is the only primary, next to a primary image of the other
\* vehicle
C20_Witness ==
    /\ last.op = "imagenes"
    /\ ImagenesDe(1) = {1, 2}
    /\ Principales(1) = {2}
    /\ Principales(2) = {3}

\* C21: no vehicle has more than 15 images, also when upload requests for the
\* same vehicle interleave.
C21_AtMost15 == \A v \in DOMAIN vehiculos : Cardinality(ImagenesDe(v)) <= MaxImagenes

\* C22: needs_refresh is true iff the current time is at least expires_at
\* minus 30 minutes, is_token_expired is true iff it is at least expires_at,
\* and so an expired token always needs refresh.
C22_RefreshWindow ==
    last.op = "token_check" =>
      /\ last.on.needs_refresh <=> (last.on.t >= last.on.expires_at - 30)
      /\ last.on.is_token_expired <=> (last.on.t >= last.on.expires_at)
      /\ last.on.is_token_expired => last.on.needs_refresh

\* a read exactly 30 minutes before the expiry: refresh needed, not expired;
\* the credential has since expired
C22_Witness ==
    /\ last.op = "token_check"
    /\ last.on.t = last.on.expires_at - 30
    /\ last.on.needs_refresh /\ ~last.on.is_token_expired
    /\ is_token_expired(credential[1], now)

\* C23: a vehicle's disponible is true iff vendido = false, reservado = false
\* and deleted_at is null.
C23_Disponible ==
    \A v \in DOMAIN vehiculos :
       disponible(v) <=> (~fichas[v].vendido /\ ~fichas[v].reservado /\ ~vehiculos[v].deleted)

\* a vehicle neither sold nor reserved that is soft-deleted is not available,
\* next to one that an annulled reservation released and that is available
C23_Witness ==
    /\ last.op = "anular"
    /\ reservas[last.on].vehiculo = 2
    /\ disponible(2)
    /\ vehiculos[1].deleted /\ ~fichas[1].vendido /\ ~fichas[1].reservado
    /\ ~disponible(1)

\* the amounts of the payments attached to a reservation, added up in the
\* order of their ids
RECURSIVE Ledger(_, _)
Ledger(pagos, n) == IF n = 0 THEN 0 ELSE Ledger(pagos, n - 1) + pagos[n]

\* C24: total_operacion is the sum of the nine cost columns and
\* saldo_pendiente is total_operacion minus the sum of monto over the payments
\* currently attached.
C24_Totals ==
    \A r \in DOMAIN reservas :
       LET row == reservas[r] IN
       /\ total_operacion(row) =
            row.precio_venta + row.comision_vendedor + row.comision_comprador
            + row.gestion_credito + row.gastos_transferencia + row.costo_patentamiento
            + row.costo_flete + row.impuestos + row.otros_gastos
       /\ saldo_pendiente(row) = total_operacion(row) - Ledger(row.formas_pago, NumPagos)

\* a payment was removed from a reservation with 0km costs: one payment is
\* left and the balance is the total minus its amount
C24_Witness ==
    /\ last.op = "eliminar_forma_pago"
    /\ reservas[1].costo_flete = MaxMonto /\ reservas[1].costo_patentamiento = MaxMonto
    /\ reservas[1].formas_pago = <<0, MaxMonto>>
    /\ saldo_pendiente(reservas[1]) = total_operacion(reservas[1]) - MaxMonto

\* the words of a plate format, letters before (and after) three digits, with
\* at most one whitespace character at each gap
FormatWord(w, before, after) ==
    LET bare == SelectSeq(w, LAMBDA c : ~IsSpace(c))
    IN  /\ Len(bare) = before + 3 + after
        /\ \A k \in 1..Len(bare) :
             IF k \in (before + 1)..(before + 3) THEN bare[k] \in DigitChars
             ELSE \E q \in 1..Len(UpperCase) : UpperCase[q] = bare[k]
        /\ \A k \in 1..Len(w) :
             IsSpace(w[k]) =>
               /\ k > 1 /\ k < Len(w)
               /\ ~IsSpace(w[k - 1])
               /\ \/ IsUpperLetter(w[k - 1]) /\ w[k + 1] \in DigitChars
                  \/ w[k - 1] \in DigitChars /\ IsUpperLetter(w[k + 1])

\* the places <<i, j>> of the upper-cased title where a whole word run is a
\* plate of the format
PlatesIn(title, before, after) ==
    LET t == upper(title)
    IN  {ij \in (1..Len(t)) \X (1..Len(t)) :
           /\ ij[1] <= ij[2]
           /\ FormatWord(SubSeq(t, ij[1], ij[2]), before, after)
           /\ (ij[1] = 1 \/ ~IsWordChar(t[ij[1] - 1]))
           /\ (ij[2] = Len(t) \/ ~IsWordChar(t[ij[2] + 1]))}
FirstPlateIn(title, before, after) ==
    LET found == PlatesIn(title, before, after)
        ij == CHOOSE x \in found : \A z \in found : x[1] <= z[1]
    IN  SubSeq(upper(title), ij[1], ij[2])

\* whitespace and hyphens stripped, upper-cased
Normalized(w, out) ==
    /\ out = upper(SelectSeq(w, LAMBDA c : c \notin {" ", "-"}))
    /\ \A k \in 1..Len(out) : out[k] \notin {" ", "-"} /\ upper_char(out[k]) = out[k]

\* C25: extract_patente returns the normalized value of the first plate
\* attribute with a non-empty value, else the normalized first new-format
\* match of the title, else the first old-format match, else the empty string;
\* the two example titles give ABC123 and AB123CD.
C25_ExtractPatente ==
    last.op = "extract_patente" =>
      LET title == last.on.title
          attributes == last.on.attributes
          plate == {k \in 1..Len(attributes) :
                      /\ upper(attributes[k].id) \in PlateAttributeIds
                      /\ (attributes[k].value_name # <<>> \/ attributes[k].value_id # <<>>)}
      IN  /\ IF plate # {}
             THEN LET k == CHOOSE x \in plate : \A z \in plate : x <= z
                  IN  \/ /\ attributes[k].value_name # <<>>
                         /\ Normalized(attributes[k].value_name, last.result)
                      \/ /\ attributes[k].value_name = <<>>
                         /\ Normalized(attributes[k].value_id, last.result)
             ELSE IF PlatesIn(title, 2, 2) # {}
             THEN Normalized(FirstPlateIn(title, 2, 2), last.result)
             ELSE IF PlatesIn(title, 3, 0) # {}
             THEN Normalized(FirstPlateIn(title, 3, 0), last.result)
             ELSE last.result = <<>>
          /\ title = ExampleOld /\ attributes = <<>>
               => last.result = <<"A", "B", "C", "1", "2", "3">>
          /\ title = ExampleNew /\ attributes = <<>>
               => last.result = <<"A", "B", "1", "2", "3", "C", "D">>

\* a title with an old-format plate before a new-format one gives the new one
C25_Witness ==
    /\ last.op = "extract_patente"
    /\ last.on.attributes = <<>>
    /\ last.on.title = <<"a", "b", "C", "1", "2", "3", " ", "a", "b", "1", "2", "3", "a", "b">>
    /\ last.result = <<"A", "B", "1", "2", "3", "A", "B">>

\* C26: refresh_ml_token --force performs a refresh-token exchange for the
\* active credential even when needs_refresh is false.
C26_ForceExchanges ==
    [][(/\ ActiveUsers # {}
        /\ ~needs_refresh(credential[TheActive], now)
        /\ last'.op = "cron"
        /\ last' # last)
       => last'.log # <<>>]_vars

\* the MLPublication rows linked to vehicle v
LinkedTo(v) == {i \in DOMAIN publications : publications[i].exists /\ publications[i].vehiculo = v}

\* C27: after any sequence of sync, manual link, unlink and publish
\* operations no vehicle is linked to more than one MLPublication row.
C27_OneLinkPerVehicle ==
    \A v \in DOMAIN vehiculos : Cardinality(LinkedTo(v)) <= 1

\* C28: a vehicle with a non-null ml_item_id has an MLPublication row of that
\* ml_item_id linked to it, and every MLPublication linked to a vehicle has
\* the ml_item_id the vehicle carries.
C28_ItemIdAgrees ==
    /\ \A v \in DOMAIN vehiculos :
         vehiculos[v].ml_item_id # 0 => vehiculos[v].ml_item_id \in LinkedTo(v)
    /\ \A i \in DOMAIN publications :
         publications[i].exists /\ publications[i].vehiculo # 0
           => /\ publications[i].vehiculo \in DOMAIN vehiculos
              /\ vehiculos[publications[i].vehiculo].ml_item_id = i

\* C29: under any interleaving of creations and deletions, every created
\* reservation receives a numero_reserva never given to another reservation,
\* stored or deleted.
C29_NumberNeverReused ==
    \A p \in Creators, q \in Creators :
      \A k \in 1..Len(trace[p]), m \in 1..Len(trace[q]) :
        trace[p][k] = trace[q][m] => p = q /\ k = m

\* C30: _request never sends an API request on behalf of a credential that is
\* inactive at the moment of sending, also when the refresh that ran inside
\* the same call has just deactivated it.
C30_NoSendWhenInactive ==
    [][\A p \in DOMAIN trace :
         (p \in DOMAIN trace' /\ trace'[p].sent > trace[p].sent) => mem[p].is_active]_vars

====
